---- MODULE Spec2Model ----
(***************************************************************************)
(* A model of the ep-engine bucket (KVBucket), of one of its partitions    *)
(* (VBucket) and of the partition's DurabilityMonitor.                     *)
(*                                                                         *)
(* SpecDM     : an active partition, its checkpoint, hash table and        *)
(*              DurabilityMonitor (sync writes, seqno acks, commits).      *)
(* SpecCkpt   : every kind of item queued into the checkpoint of an        *)
(*              active partition.                                          *)
(* SpecKV     : the partition state machine of KVBucket, the client        *)
(*              operations and the expiry pager as interleaved threads,    *)
(*              the state lock, the pending operations of the partition    *)
(*              and the PendingOpsNotification task.                       *)
(* SpecKVFair : SpecKV with the executor pool running scheduled tasks.     *)
(* SpecFailover : the failover table, the DCP streams and the rollback of  *)
(*              a partition that is promoted, demoted and deleted.         *)
(* SpecColl   : updates of the collections manifest through                *)
(*              KVBucket::setCollections while partitions change state.    *)
(* SpecCollManager : SpecColl with calls of Collections::Manager::update   *)
(*              made on the manager itself.                                *)
(* SpecBGFetch : gets suspended for a background fetch and resumed by      *)
(*              KVBucket::completeBGFetchMulti.                            *)
(* SpecDMSparse : the DurabilityMonitor with SyncWrites at seqnos with     *)
(*              gaps (the fixture of DurabilityMonitorTest).               *)
(* SpecChain  : replication chains registered with the DurabilityMonitor.  *)
(* SpecTopology : VBucket::validateSetStateMeta on a 'topology'.           *)
(* SpecConn   : Connection::remapErrorCode for clients with and without    *)
(*              extended error codes.                                      *)
(* SpecDcp    : the DcpMutation packets Connection::mutation queues.       *)
(* SpecStreamReq : the stream requests of a DCP consumer answered from the *)
(*              failover table of a promoted replica.                      *)
(* SpecLocks  : the locks the operations of KVBucket take, called          *)
(*              concurrently.                                              *)
(* SpecVBMap  : the per-state partition counters of the partition map.     *)
(* SpecExpiry : KVBucket::deleteExpiredItem with the pre-expiry hook.      *)
(* SpecPager  : the expiry pager task enabled, disabled and rescheduled.   *)
(* SpecDcpDeletion : the DcpDeletion packets Connection::deletion and      *)
(*              deletionV2 queue.                                          *)
(* SpecMock   : the EWOULDBLOCK wrappers of the mock server.               *)
(* SpecVisit  : a VBCBAdaptor task walking the partitions for a visitor.   *)
(* SpecVisitFair : SpecVisit with the executor pool running the task.      *)
(* SpecClose  : Connection::close on a connection the engine refers to.    *)
(***************************************************************************)
EXTENDS Integers, Sequences, FiniteSets, TLC

\* ------------------------------------------------------------------------
\* Bounds of the model
\* ------------------------------------------------------------------------
\* the number of items queued into the checkpoint manager of a partition
MaxEnqueues == 4
\* the number of seqno acks the DurabilityMonitor receives
MaxAcks == 2
\* the number of partition UUIDs the failover tables mint
MaxUuids == 2
\* the high seqno a partition reaches by the items queued (SpecFailover)
MaxSeqno == 2

\* ------------------------------------------------------------------------
\* Program constants
\* ------------------------------------------------------------------------
\* DurabilityMonitor::maxReplicas
maxReplicas == 3

Keys == {"k1", "k2"}
Cookies == {"c1", "c2"}
\* SpecKV: the client connection, and the thread of the expiry pager
KVCookie == "c1"
Pager == "pager"
Threads == {KVCookie, Pager}
\* VBucketPtr: the objects constructed for the partition; NoVB is the null
\* pointer
VBObjects == {"vb1", "vb2"}
NoVB == "null"
\* vbucket_state_t
vbucket_state_active == "active"
vbucket_state_replica == "replica"
vbucket_state_pending == "pending"
vbucket_state_dead == "dead"
VBStates == {vbucket_state_active, vbucket_state_replica,
             vbucket_state_pending, vbucket_state_dead}
\* the operations of KVBucket a client calls
LockedOps == {"set", "add", "replace", "get", "getAndUpdateTtl",
              "setWithMeta", "deleteWithMeta"}
ClientOps == LockedOps \cup {"deleteItem"}
NoCookie == "nullptr"
\* SpecDMSparse: a SyncWrite is added at most this far beyond the high seqno
MaxSeqnoStep == 2
\* the background fetches scheduled in a behaviour of SpecBGFetch
MaxFetches == 3
\* the statuses VBucket::completeBGFetchForSingleItem completes a fetch with
BGFetchStatuses == {"Success", "KeyMissing"}
\* TransferVB
TransferVB == {"Yes", "No"}
\* Collections::Manifest: the manifests an update can bring; NoManifest is
\* the null pointer of Manager::current, InvalidJson a text no Manifest can
\* be constructed from
Manifests == {"m1", "m2"}
NoManifest == "nullptr"
InvalidJson == "invalid"
\* the connections that update the manifest
Updaters == {"admin1", "admin2"}
\* the DCP streams a consumer can open on the partition
Streams == {"s1"}

active == "active"
replica1 == "replica1"
replica2 == "replica2"
replica3 == "replica3"
Nodes == {active, replica1, replica2, replica3}

\* cb::durability::Level
Levels == {"Majority", "MajorityAndPersistOnMaster", "PersistToMajority"}

\* the chains a topology can name: the active first, then up to maxReplicas
\* replicas
ValidChains ==
    { SubSeq(<<active, replica1, replica2, replica3>>, 1, n) :
        n \in 1..(maxReplicas + 1) }

\* the high seqno a partition is constructed with: 0 (a new partition) or the
\* high seqno warmup found on disk
InitHighSeqnos == {0, 4}

Max(S) == CHOOSE x \in S : \A y \in S : y <= x

VARIABLES
    \* ---- DurabilityMonitor (state.firstChain, state.trackedWrites) ----
    chain,          \* the registered chain, <<>> when none is registered
    pos,            \* node -> its memory/disk positions
    trackedWrites,  \* Container of SyncWrite, in the order of addSyncWrite
    \* ---- the VBucket the monitor belongs to ----
    highSeqno,      \* CheckpointManager lastBySeqno
    ckpt,           \* items of the open checkpoint, in order
    htCommitted,    \* key -> committed StoredValue of the HashTable
    htPending,      \* key -> is there a pending StoredValue
    notified,       \* cookie -> "idle", "blocked" or the status it was notified with
    \* ---- history ----
    enqLog,         \* seqnos handed out by queueDirty, in the order of the calls
    commits,        \* the sync writes committed, in the order of commit
    nAcks,          \* the number of calls of seqnoAckReceived
    dmLast,         \* the last call made to the monitor and its outcome; of
                    \* an ack: was its memory seqno below its disk seqno,
                    \* was a seqno below the one the node ack'ed last
    \* ---- KVBucket (SpecKV) ----
    vbMap,          \* vbMap.getBucket(vbid): the object of the partition, or NoVB
    vbState,        \* object -> VBucket::state ("none": not constructed)
    pendingOps,     \* object -> the cookies of VBucket::pendingOps
    takeoverBackedUp, \* object -> VBucket::isTakeoverBackedUp()
    notifyTasks,    \* the objects a PendingOpsNotification task is scheduled for
    op,             \* thread -> the operation of KVBucket it is executing
    \* ---- failover tables, DCP streams and rollback ----
    failovers,      \* object -> VBucket::failovers, the latest entry first
    uuidsMinted,    \* the number of partition UUIDs minted so far
    dcpStreams,     \* the open DCP streams of the partition
    cursors,        \* object -> the cursors registered in its checkpoint manager
    vbHighSeqno,    \* object -> the high seqno of its checkpoint manager
    rollbackLast,   \* the last call of KVBucket::rollback and its outcome
    \* ---- Collections::Manager ----
    current,        \* Manager::current
    vbManifest,     \* object -> the manifest the partition was last updated from
    upd,            \* updater -> its call of Manager::update
    collFailed,     \* (history) has an update failed or a partition rejected one
    \* ---- background fetch ----
    bgFetches,      \* the fetches queued on the partitions, in order
    fetchedItems,   \* the batch the BgFetcher has read from disk
    ioComplete,     \* cookie -> the statuses it was notified with since it
                    \* was suspended for a fetch
    nFetches,       \* the number of fetches scheduled so far
    bgLast,         \* the last call of completeBGFetchMulti
    \* ---- VBucket::validateSetStateMeta ----
    setStateMeta,   \* the meta object of a set-vbucket-state request
    metaResult,     \* what validateSetStateMeta returned for it
    \* ---- Connection ----
    xerror_support, \* Connection::xerror_support: the client negotiated
                    \* extended error codes
    collectionsSupported, \* Connection::isCollectionsSupported()
    remapLast,      \* the last call of remapErrorCode and what it returned
    iov,            \* the buffers queued for sending (addIov), in order
    mutationLast,   \* the last call of Connection::mutation: its stream id,
                    \* the header and the extras it built, what it returned
                    \* and the number of buffers it queued
    \* ---- DCP producer ----
    streamReqLog,   \* the stream requests of the consumer and the responses
                    \* of the producer, in order
    \* ---- the locks of the bucket and of a partition ----
    lockScript,     \* thread -> the lock operations left of the call it makes
    locksHeld,      \* thread -> the locks it holds, in the order it took them
    \* ---- VBucketMap ----
    vbStateCount,   \* VBucketMap::vbStateCount: state -> the counter of the
                    \* partitions in that state
    \* ---- KVBucket::deleteExpiredItem ----
    expiry,         \* the call of deleteExpiredItem under way: its position,
                    \* the object it got from the map, the item
    expiryLast,     \* the last call of deleteExpiredItem that returned: the
                    \* state it read under the lock, was the hook run and
                    \* what it answered, the item given to the partition
    \* ---- KVBucket::expiryPager and the ExecutorPool ----
    expiryPager,    \* expiryPager.enabled, .sleeptime, .task (the id of the
                    \* task scheduled last); initialized: has
                    \* initializeExpiryPager run
    scheduledTasks, \* the ExpiredItemPager tasks the pool has scheduled
    nextTaskId,     \* the number of tasks scheduled so far
    pagerLast,      \* the last call made to the expiry pager, and was the
                    \* pager enabled when it was made
    \* ---- Connection::deletion, Connection::deletion_v2 ----
    deletionLast,   \* the last DcpDeletion built: its version and stream
                    \* id, the sizes of its sections, what was returned and
                    \* the number of buffers queued
    \* ---- the mock server: a cookie and a call of an engine function ----
    mockCookie,     \* mock_connstruct: mutex, nblocks, status,
                    \* handle_ewouldblock
    engineCall,     \* the call through an EWOULDBLOCK wrapper: the wrapper,
                    \* where it is, what it returned, and the numbers of
                    \* calls of the engine function and of notifications
    \* ---- a VBCBAdaptor task that walks the partitions for a visitor ----
    bucketsInMap,   \* the ids getVBucket finds a partition for
    adaptor,        \* the task: whether it is scheduled, snoozed or done, the
                    \* ids captured at construction, vbList, currentvb, the
                    \* ids given to visitBucket, the calls of complete(), and
                    \* what the last run did
    visitorMayPause, \* whether pauseVisitor() of the visitor may still
                    \* answer true
    \* ---- a connection that is shut down ----
    closing,        \* the connection: its state, refcount, whether it is a
                    \* DCP connection and registered in libevent, and its
                    \* cookies, each with refcount, ewouldblock and whether
                    \* it holds a request
    closeLast       \* the last Connection::close: what it returned, the
                    \* cookies it reset and the disconnect callbacks made

dmVars == <<chain, pos, trackedWrites, highSeqno, ckpt, htCommitted, htPending,
            notified, enqLog, commits, nAcks, dmLast>>

kvVars == <<vbMap, vbState, pendingOps, takeoverBackedUp, notifyTasks, op>>

ftVars == <<failovers, uuidsMinted, dcpStreams, cursors, vbHighSeqno,
            rollbackLast>>

\* the state of the bucket besides the partition state machine
collVars == <<current, vbManifest, upd, collFailed>>

bgVars == <<bgFetches, fetchedItems, ioComplete, nFetches, bgLast>>

\* the arguments and the results of the functions called on their own
callVars == <<setStateMeta, metaResult>>

connVars == <<xerror_support, collectionsSupported, remapLast, iov, mutationLast>>

dcpVars == <<streamReqLog>>

lockVars == <<lockScript, locksHeld>>

expiryVars == <<expiry, expiryLast>>

pagerVars == <<expiryPager, scheduledTasks, nextTaskId, pagerLast>>

delVars == <<deletionLast>>

mockVars == <<mockCookie, engineCall>>

visitVars == <<bucketsInMap, adaptor, visitorMayPause>>

closeVars == <<closing, closeLast>>

\* the state of the components modelled on their own, the counters of the
\* partition map apart
laterVars == <<lockVars, expiryVars, pagerVars, delVars, mockVars, visitVars, closeVars>>

\* the state of the bucket and of the connection
earlierVars ==
    <<dmVars, kvVars, ftVars, collVars, bgVars, callVars, connVars, dcpVars>>

\* the state the operations on one component leave alone
besidesLockVars ==
    <<earlierVars, vbStateCount, expiryVars, pagerVars, delVars, mockVars, visitVars, closeVars>>

besidesExpiryVars ==
    <<earlierVars, vbStateCount, lockVars, pagerVars, delVars, mockVars, visitVars, closeVars>>

besidesPagerVars ==
    <<earlierVars, vbStateCount, lockVars, expiryVars, delVars, mockVars, visitVars, closeVars>>

besidesMockVars ==
    <<earlierVars, vbStateCount, lockVars, expiryVars, pagerVars, delVars,
      visitVars, closeVars>>

besidesVisitVars ==
    <<earlierVars, vbStateCount, lockVars, expiryVars, pagerVars, delVars,
      mockVars, closeVars>>

besidesCloseVars ==
    <<earlierVars, vbStateCount, lockVars, expiryVars, pagerVars, delVars,
      mockVars, visitVars>>

\* the state of the components modelled on their own
moreVars == <<laterVars, vbStateCount>>

admVars == <<ftVars, collVars, bgVars, callVars, connVars, dcpVars, moreVars>>

vars == <<dmVars, kvVars, admVars>>

\* ------------------------------------------------------------------------
\* DurabilityMonitor
\* ------------------------------------------------------------------------
\* NodePosition: the seqno of the SyncWrite a node's tracking points to, and
\* the last seqno the node ack'ed, for memory and for disk
ZeroPosition == [memWrite |-> 0, memAck |-> 0, diskWrite |-> 0, diskAck |-> 0]

ChainNodes(c) == {c[i] : i \in 1..Len(c)}

\* the active is the first node of the chain
ActiveNode(c) == c[1]

\* a majority rounded down: half of a chain of even size
Majority_RoundedDown(c) == (Len(c) + 1) \div 2

\* the number of nodes a majority of the chain needs: ceil((|chain|+1)/2)
Majority(c) == (Len(c) + 1 + 1) \div 2

NumMemory(w, p, c) ==
    Cardinality({n \in ChainNodes(c) : p[n].memWrite >= w.seqno})

\* the active counts as having persisted every SyncWrite
NumDisk_ActiveCounted(w, p, c) ==
    Cardinality({n \in ChainNodes(c) :
                    n = ActiveNode(c) \/ p[n].diskWrite >= w.seqno})

NumDisk(w, p, c) ==
    Cardinality({n \in ChainNodes(c) : p[n].diskWrite >= w.seqno})

\* is the durability requirement of SyncWrite w verified by positions p
IsSatisfied(w, p, c) ==
    CASE w.level = "Majority" ->
            NumMemory(w, p, c) >= Majority(c)
      [] w.level = "MajorityAndPersistOnMaster" ->
            /\ NumMemory(w, p, c) >= Majority(c)
            /\ p[ActiveNode(c)].diskWrite >= w.seqno
      [] w.level = "PersistToMajority" ->
            NumDisk(w, p, c) >= Majority(c)

\* the tracking of the node points to the seqno it ack'ed
WriteCursor_AckSeqno(tw, cur, ackSeqno) == Max({cur, ackSeqno})

\* the seqno a node's tracking points to after it ack'ed ackSeqno: the last
\* tracked SyncWrite with seqno <= ackSeqno, and never backwards
WriteCursor(tw, cur, ackSeqno) ==
    Max({cur} \cup {tw[i].seqno : i \in {j \in 1..Len(tw) : tw[j].seqno <= ackSeqno}})

\* the number of leading tracked SyncWrites whose requirement is verified
RECURSIVE SatisfiedPrefix(_, _, _)
SatisfiedPrefix(tw, p, c) ==
    IF tw = <<>> THEN 0
    ELSE IF IsSatisfied(Head(tw), p, c)
         THEN 1 + SatisfiedPrefix(Tail(tw), p, c)
         ELSE 0

\* ------------------------------------------------------------------------
\* CheckpointManager and HashTable of the partition
\* ------------------------------------------------------------------------
\* HashTable::findForRead: the committed StoredValue of the key, if there is
\* one that is not deleted; a pending StoredValue is not seen
FindForRead(committed, k) ==
    IF committed[k] \in {"none", "deleted"} THEN "nullptr" ELSE committed[k]

\* HashTable::findForWrite: the pending StoredValue of the key if there is
\* one, its committed StoredValue otherwise
FindForWrite(committed, pending, k) ==
    IF pending[k] THEN "Pending"
    ELSE IF committed[k] = "none" THEN "nullptr" ELSE committed[k]

\* HashTable::getNumItems: the StoredValues, pending and committed
GetNumItems(committed, pending) ==
    Cardinality({k \in Keys : committed[k] # "none"})
        + Cardinality({k \in Keys : pending[k]})

\* Item::getCommitted of an item queued with operation queueOp
GetCommitted(queueOp) ==
    CASE queueOp = "pending_sync_write" -> "Pending"
      [] queueOp = "commit_sync_write" -> "CommittedViaPrepare"
      [] OTHER -> "CommittedViaMutation"

\* the item of the same key is kept in the checkpoint
Dedup_Kept(items, key) == items

\* Checkpoint de-duplication: the item of the same key is removed
Dedup(items, key) ==
    SelectSeq(items, LAMBDA it : it.key # key)

\* the item that replaces one of the same key takes over its seqno
QueueDirty_SeqnoOfReplaced(cm, queueOp, key) ==
    LET old == SelectSeq(cm.ckpt, LAMBDA it : it.key = key)
        seqno == IF key \in Keys /\ old # <<>> THEN old[1].seqno
                 ELSE cm.highSeqno + 1
        base == IF key \in Keys THEN Dedup(cm.ckpt, key) ELSE cm.ckpt
    IN [highSeqno |-> seqno,
        ckpt |-> Append(base, [op |-> queueOp, key |-> key, seqno |-> seqno]),
        enqLog |-> Append(cm.enqLog, seqno)]

\* CheckpointManager::queueDirty: the state of the checkpoint manager after
\* item (queueOp, key) was queued; cm = [highSeqno, ckpt, enqLog]
QueueDirty(cm, queueOp, key) ==
    LET seqno == cm.highSeqno + 1
        base == IF key \in Keys THEN Dedup(cm.ckpt, key) ELSE cm.ckpt
    IN [highSeqno |-> seqno,
        ckpt |-> Append(base, [op |-> queueOp, key |-> key, seqno |-> seqno]),
        enqLog |-> Append(cm.enqLog, seqno)]

CM == [highSeqno |-> highSeqno, ckpt |-> ckpt, enqLog |-> enqLog]

\* room for one more item, leaving room for the commit of every tracked write
EnqueueRoom == Len(enqLog) + Len(trackedWrites) < MaxEnqueues

\* the memory seqnos a node may acknowledge: 0 (nothing), the seqno of a
\* SyncWrite it was sent (still tracked, or committed meanwhile), or one beyond
\* the high seqno
AckSeqnos ==
    {0, highSeqno + 1}
        \cup {trackedWrites[i].seqno : i \in 1..Len(trackedWrites)}
        \cup {commits[i].seqno : i \in 1..Len(commits)}

\* ------------------------------------------------------------------------
\* SpecDM: initial state
\* ------------------------------------------------------------------------
\* A partition is constructed with a chain registered (VBucketDurabilityTest::
\* SetUp finds a chain of size > 0) and nothing tracked.
InitDM ==
    /\ chain \in ValidChains
    /\ pos = [n \in Nodes |-> ZeroPosition]
    /\ trackedWrites = <<>>
    /\ highSeqno \in InitHighSeqnos
    /\ ckpt = <<>>
    /\ htCommitted = [k \in Keys |-> "none"]
    /\ htPending = [k \in Keys |-> FALSE]
    /\ notified = [c \in Cookies |-> "idle"]
    /\ enqLog = <<>>
    /\ commits = <<>>
    /\ nAcks = 0
    /\ dmLast = [op |-> "none", res |-> "success"]

\* ------------------------------------------------------------------------
\* SpecDM: operations
\* ------------------------------------------------------------------------
\* the SyncWrite is appended, the tracking of the active stays where it is
AddSyncWrite_ActiveNotMoved(tw, p, c, w) ==
    [trackedWrites |-> Append(tw, w), pos |-> p]

\* the memory tracking of every node of the chain moves to the SyncWrite
AddSyncWrite_ReplicasMoved(tw, p, c, w) ==
    [trackedWrites |-> Append(tw, w),
     pos |-> [n \in Nodes |->
                IF n \in ChainNodes(c)
                THEN [p[n] EXCEPT !.memWrite = w.seqno, !.memAck = w.seqno]
                ELSE p[n]]]

\* DurabilityMonitor::addSyncWrite: the SyncWrite is appended; the active has
\* the write in its checkpoint already, so its memory tracking moves to it.
AddSyncWrite(tw, p, c, w) ==
    [trackedWrites |-> Append(tw, w),
     pos |-> [p EXCEPT ![ActiveNode(c)].memWrite = w.seqno,
                       ![ActiveNode(c)].memAck = w.seqno]]

\* A durable set of key k (VBucket::set with durability requirements): the
\* prepare is stored as a pending StoredValue, queued, and registered with
\* the monitor; the cookie is left waiting for the commit.
SyncWrite(k, level, cookie) ==
    /\ Len(enqLog) + Len(trackedWrites) + 1 < MaxEnqueues
    /\ ~htPending[k]
    /\ cookie # NoCookie => notified[cookie] # "blocked"
    /\ LET cm == QueueDirty(CM, "pending_sync_write", k)
           w == [key |-> k, seqno |-> cm.highSeqno, level |-> level,
                 cookie |-> cookie]
           dm == AddSyncWrite(trackedWrites, pos, chain, w)
       IN /\ highSeqno' = cm.highSeqno
          /\ ckpt' = cm.ckpt
          /\ enqLog' = cm.enqLog
          /\ htPending' = [htPending EXCEPT ![k] = TRUE]
          /\ trackedWrites' = dm.trackedWrites
          /\ pos' = dm.pos
          /\ notified' = IF cookie = NoCookie THEN notified
                          ELSE [notified EXCEPT ![cookie] = "blocked"]
          /\ dmLast' = [op |-> "addSyncWrite", res |-> "success"]
    /\ UNCHANGED <<chain, htCommitted, commits, nAcks, kvVars, admVars>>

\* DurabilityMonitorTest::addSyncWrite: a snapshot is created at seqno and the
\* prepare of key k is set with that seqno (GenerateBySeqno::No), without a
\* cookie
AddSyncWriteSeqno(k, seqno, level) ==
    /\ Len(enqLog) + Len(trackedWrites) + 1 < MaxEnqueues
    /\ ~htPending[k]
    /\ seqno > highSeqno
    /\ LET cm == QueueDirty([CM EXCEPT !.highSeqno = seqno - 1],
                            "pending_sync_write", k)
           w == [key |-> k, seqno |-> cm.highSeqno, level |-> level,
                 cookie |-> NoCookie]
           dm == AddSyncWrite(trackedWrites, pos, chain, w)
       IN /\ highSeqno' = cm.highSeqno
          /\ ckpt' = cm.ckpt
          /\ enqLog' = cm.enqLog
          /\ htPending' = [htPending EXCEPT ![k] = TRUE]
          /\ trackedWrites' = dm.trackedWrites
          /\ pos' = dm.pos
          /\ dmLast' = [op |-> "addSyncWrite", res |-> "success"]
    /\ UNCHANGED <<chain, htCommitted, notified, commits, nAcks, kvVars,
                   admVars>>

\* the node identifiers a chain handed to registerReplicationChain can name,
\* and the chains handed to it: every list of up to maxReplicas identifiers,
\* and the chain of the active and two replicas with one or two more
ChainNodeIds == Nodes \cup {"replica4"}
ChainInputs ==
    UNION {[1..n -> ChainNodeIds] : n \in 0..maxReplicas}
        \cup {<<active, replica1, replica2>> \o more :
                 more \in UNION {[1..n -> ChainNodeIds] : n \in 1..2}}

\* a chain names no node twice
NoDuplicateNode(nodes) ==
    \A i, j \in 1..Len(nodes) : nodes[i] = nodes[j] => i = j

\* a chain that names a node twice is registered
RegisterChainError_DuplicateAccepted(nodes) ==
    IF nodes = <<>> THEN "Empty chain"
    ELSE IF Len(nodes) > maxReplicas + 1 THEN "Too many nodes in chain"
    ELSE "none"

\* what() of the std::logic_error registerReplicationChain throws for the
\* chain, "none" if it registers it
RegisterChainError(nodes) ==
    IF nodes = <<>> THEN "Empty chain"
    ELSE IF Len(nodes) > maxReplicas + 1 THEN "Too many nodes in chain"
    ELSE IF ~NoDuplicateNode(nodes) THEN "Duplicate node"
    ELSE "none"

\* DurabilityMonitor::registerReplicationChain, called while nothing is
\* tracked: the tracking of the nodes of the new chain starts at zero
RegisterReplicationChain(nodes) ==
    /\ trackedWrites = <<>>
    /\ IF RegisterChainError(nodes) # "none"
       THEN /\ dmLast' = [op |-> "registerReplicationChain",
                          res |-> "logic_error",
                          what |-> RegisterChainError(nodes),
                          nodes |-> nodes]
            /\ UNCHANGED <<chain, pos>>
       ELSE /\ chain' = nodes
            /\ pos' = [n \in Nodes |-> ZeroPosition]
            /\ dmLast' = [op |-> "registerReplicationChain",
                          res |-> "success", what |-> "none",
                          nodes |-> nodes]
    /\ UNCHANGED <<trackedWrites, highSeqno, ckpt, htCommitted, htPending,
                   notified, enqLog, commits, nAcks, kvVars, admVars>>

\* DurabilityMonitor::getReplicationChainSize
GetReplicationChainSize == Len(chain)

\* A non-durable mutation, deletion or expiration of key k.
Enqueue(queueOp, k) ==
    /\ EnqueueRoom
    /\ ~htPending[k]
    /\ LET cm == QueueDirty(CM, queueOp, k)
       IN /\ highSeqno' = cm.highSeqno
          /\ ckpt' = cm.ckpt
          /\ enqLog' = cm.enqLog
    /\ htCommitted' = [htCommitted EXCEPT
                          ![k] = IF queueOp = "mutation" THEN "CommittedViaMutation"
                                 ELSE "deleted"]
    /\ UNCHANGED <<chain, pos, trackedWrites, htPending, notified, commits,
                   nAcks, dmLast, kvVars,
                   admVars>>

Mutation(k) == Enqueue("mutation", k)
Deletion(k) == htCommitted[k] \notin {"none", "deleted"} /\ Enqueue("deletion", k)
Expiration(k) == htCommitted[k] \notin {"none", "deleted"} /\ Enqueue("expiration", k)

\* CheckpointManager::queueSetVBState (KVBucket::scheduleVBStatePersist)
QueueSetVBState ==
    /\ EnqueueRoom
    /\ LET cm == QueueDirty(CM, "set_vbucket_state", "")
       IN /\ highSeqno' = cm.highSeqno
          /\ ckpt' = cm.ckpt
          /\ enqLog' = cm.enqLog
    /\ UNCHANGED <<chain, pos, trackedWrites, htCommitted, htPending, notified,
                   commits, nAcks, dmLast, kvVars,
                   admVars>>

\* DurabilityMonitor::commit of every SyncWrite of toCommit, in order: the
\* pending StoredValue becomes the committed one, a commit_sync_write item is
\* queued and the cookie is notified (KVBucket::makeSyncWriteCompleteCB).
\* st = [cm, htCommitted, htPending, notified, commits]
RECURSIVE CommitAll(_, _)
CommitAll(toCommit, st) ==
    IF toCommit = <<>> THEN st
    ELSE LET w == Head(toCommit)
             cm == QueueDirty(st.cm, "commit_sync_write", w.key)
         IN CommitAll(Tail(toCommit),
                [cm |-> cm,
                 htCommitted |-> [st.htCommitted EXCEPT
                                     ![w.key] = "CommittedViaPrepare"],
                 htPending |-> [st.htPending EXCEPT ![w.key] = FALSE],
                 notified |-> IF w.cookie = NoCookie THEN st.notified
                              ELSE [st.notified EXCEPT ![w.cookie] = "Success"],
                 commits |-> Append(st.commits,
                                [key |-> w.key, seqno |-> w.seqno,
                                 level |-> w.level,
                                 commitSeqno |-> cm.highSeqno])])

\* every tracked SyncWrite whose requirement is verified, whatever precedes it
ProcessSeqnoAck_AnySatisfied(tw, p, c) ==
    SelectSeq(tw, LAMBDA w : IsSatisfied(w, p, c))

\* an ack commits one SyncWrite at most
ProcessSeqnoAck_FirstOnly(tw, p, c) ==
    SubSeq(tw, 1, IF SatisfiedPrefix(tw, p, c) > 0 THEN 1 ELSE 0)

\* DurabilityMonitor::processSeqnoAck, toCommit: the SyncWrites an ack removes
\* from tracking are the leading ones whose requirement is verified, up to the
\* first that is not
ProcessSeqnoAck(tw, p, c) == SubSeq(tw, 1, SatisfiedPrefix(tw, p, c))

\* DurabilityMonitor::removeSyncWrite of every SyncWrite of toCommit
RemoveSyncWrites(tw, toCommit) ==
    SelectSeq(tw, LAMBDA w : \A i \in 1..Len(toCommit) : toCommit[i] # w)

\* the positions of node after it ack'ed {memorySeqno, diskSeqno}
UpdateNodeAck(tw, p, node, memorySeqno, diskSeqno) ==
    [p EXCEPT ![node] =
        [memWrite |-> WriteCursor(tw, p[node].memWrite, memorySeqno),
         memAck |-> memorySeqno,
         diskWrite |-> WriteCursor(tw, p[node].diskWrite, diskSeqno),
         diskAck |-> diskSeqno]]

\* an ack is accepted while nothing is tracked
SeqnoAckRejected_NothingTrackedAccepted(node, memorySeqno, diskSeqno) ==
    \/ memorySeqno < diskSeqno
    \/ memorySeqno < pos[node].memAck
    \/ diskSeqno < pos[node].diskAck

\* an ack seqno smaller than the last one of the node is accepted
SeqnoAckRejected_NotMonotonic(node, memorySeqno, diskSeqno) ==
    \/ memorySeqno < diskSeqno
    \/ trackedWrites = <<>>

\* the ack is refused: std::logic_error
SeqnoAckRejected(node, memorySeqno, diskSeqno) ==
    \/ memorySeqno < diskSeqno
    \/ trackedWrites = <<>>
    \/ memorySeqno < pos[node].memAck
    \/ diskSeqno < pos[node].diskAck

\* what() of the std::logic_error of a refused ack
LogicErrorWhat(node, memorySeqno, diskSeqno) ==
    IF memorySeqno < diskSeqno THEN "memorySeqno < diskSeqno"
    ELSE IF trackedWrites = <<>> THEN "No tracked SyncWrite"
    ELSE "Monotonic"

\* DurabilityMonitor::seqnoAckReceived
SeqnoAckReceived(node, memorySeqno, diskSeqno) ==
    /\ node \in ChainNodes(chain)
    /\ nAcks < MaxAcks
    /\ nAcks' = nAcks + 1
    /\ UNCHANGED <<kvVars, admVars>>
    /\ IF SeqnoAckRejected(node, memorySeqno, diskSeqno)
       THEN /\ dmLast' = [op |-> "seqnoAckReceived", res |-> "logic_error",
                          what |-> LogicErrorWhat(node, memorySeqno,
                                                  diskSeqno),
                          memoryBelowDisk |-> memorySeqno < diskSeqno,
                          belowLastAck |->
                              \/ memorySeqno < pos[node].memAck
                              \/ diskSeqno < pos[node].diskAck]
            /\ UNCHANGED <<chain, pos, trackedWrites, highSeqno, ckpt,
                           htCommitted, htPending, notified, enqLog, commits>>
       ELSE LET p == UpdateNodeAck(trackedWrites, pos, node, memorySeqno,
                                   diskSeqno)
                toCommit == ProcessSeqnoAck(trackedWrites, p, chain)
                st == CommitAll(toCommit,
                        [cm |-> CM, htCommitted |-> htCommitted,
                         htPending |-> htPending, notified |-> notified,
                         commits |-> commits])
            IN /\ pos' = p
               /\ trackedWrites' = RemoveSyncWrites(trackedWrites, toCommit)
               /\ highSeqno' = st.cm.highSeqno
               /\ ckpt' = st.cm.ckpt
               /\ enqLog' = st.cm.enqLog
               /\ htCommitted' = st.htCommitted
               /\ htPending' = st.htPending
               /\ notified' = st.notified
               /\ commits' = st.commits
               /\ dmLast' = [op |-> "seqnoAckReceived", res |-> "success",
                             what |-> "none",
                             memoryBelowDisk |-> memorySeqno < diskSeqno,
                             belowLastAck |->
                                 \/ memorySeqno < pos[node].memAck
                                 \/ diskSeqno < pos[node].diskAck]
               /\ UNCHANGED chain

\* ------------------------------------------------------------------------
\* KVBucket: the partition vbid, the VBucket objects constructed for it, and
\* the threads executing operations on it
\* ------------------------------------------------------------------------
\* VBucket::validateSetStateMeta: the meta object of a set-vbucket-state
\* request, a JSON object of which only the key 'topology' is modelled
\* ------------------------------------------------------------------------
\* the number of chains, and of nodes of a chain, of the topologies checked
MaxTopologyChains == 3
MaxChainNodes == 5

\* JSON values: a string, a number, an array of values
JString == [type |-> "string", items |-> <<>>]
JNumber == [type |-> "number", items |-> <<>>]
JArray(items) == [type |-> "array", items |-> items]

\* the lists of n nodes: every node a string, or one of them a number
NodeLists(n) ==
    {[j \in 1..n |-> JString]}
        \cup {[j \in 1..n |-> IF j = k THEN JNumber ELSE JString] : k \in 1..n}

\* the values of an element of 'topology': a chain of nodes, or a string
\* (the flat array of the negative test)
ChainValues ==
    {JString} \cup {JArray(l) : l \in UNION {NodeLists(n) : n \in 0..MaxChainNodes}}

\* the values of 'topology': an array of elements, or a value that is
\* no array
TopologyValues ==
    {JString, JNumber}
        \cup {JArray(cs) :
                cs \in UNION {[1..n -> ChainValues] : n \in 0..MaxTopologyChains}}

MetaInputs == [topology : TopologyValues]

\* the empty string
NoMessage == [what |-> ""]
\* before validateSetStateMeta has returned
NotValidated == [what |-> "not called"]

Min(S) == CHOOSE x \in S : \A y \in S : x <= y

\* the message about the element i of 'topology' (counted from 1; the message
\* counts chains and nodes from 0), the empty string when it is a chain of
\* 1..4 strings
ChainMessage_NodesUnchecked(topology, i) ==
    LET nodes == topology.items[i] IN
    IF nodes.type # "array"
    THEN [what |-> "'topology' chain[] must be an array", chain |-> i - 1]
    ELSE IF Len(nodes.items) < 1 \/ Len(nodes.items) > 4
    THEN [what |-> "'topology' chain[] must contain 1..4 nodes", chain |-> i - 1]
    ELSE NoMessage

ChainMessage(topology, i) ==
    LET nodes == topology.items[i]
        notStrings == {j \in 1..Len(nodes.items) : nodes.items[j].type # "string"}
    IN
    IF nodes.type # "array"
    THEN [what |-> "'topology' chain[] must be an array", chain |-> i - 1]
    ELSE IF Len(nodes.items) < 1 \/ Len(nodes.items) > 4
    THEN [what |-> "'topology' chain[] must contain 1..4 nodes", chain |-> i - 1]
    ELSE IF notStrings # {}
    THEN [what |-> "'topology' chain[] node[] must be a string",
          chain |-> i - 1, node |-> Min(notStrings) - 1]
    ELSE NoMessage

\* the message about the value of 'topology': the chains are looked at in
\* order, and the first message is returned
ValidateReplicationTopology(topology) ==
    IF topology.type # "array"
    THEN [what |-> "'topology' must be an array"]
    ELSE IF Len(topology.items) < 1 \/ Len(topology.items) > 2
    THEN [what |-> "'topology' must contain 1..2 elements"]
    ELSE LET bad == {i \in 1..Len(topology.items) :
                        ChainMessage(topology, i) # NoMessage}
         IN IF bad = {} THEN NoMessage ELSE ChainMessage(topology, Min(bad))

\* VBucket::validateSetStateMeta(meta) of an object whose only key is
\* 'topology'
ValidateSetStateMeta ==
    /\ metaResult = NotValidated
    /\ metaResult' = ValidateReplicationTopology(setStateMeta.topology)
    /\ UNCHANGED <<setStateMeta, dmVars, kvVars, ftVars, collVars, bgVars, connVars,
                   dcpVars, moreVars>>

\* ------------------------------------------------------------------------
\* Connection::remapErrorCode
\* ------------------------------------------------------------------------
\* ENGINE_ERROR_CODE: the codes of the switch of remapErrorCode
EngineErrorCodes ==
    {"ENGINE_SUCCESS", "ENGINE_KEY_ENOENT", "ENGINE_KEY_EEXISTS",
     "ENGINE_ENOMEM", "ENGINE_NOT_STORED", "ENGINE_EINVAL", "ENGINE_ENOTSUP",
     "ENGINE_EWOULDBLOCK", "ENGINE_E2BIG", "ENGINE_DISCONNECT",
     "ENGINE_NOT_MY_VBUCKET", "ENGINE_TMPFAIL", "ENGINE_ERANGE",
     "ENGINE_ROLLBACK", "ENGINE_EBUSY", "ENGINE_DELTA_BADVAL",
     "ENGINE_PREDICATE_FAILED", "ENGINE_FAILED", "ENGINE_LOCKED",
     "ENGINE_LOCKED_TMPFAIL", "ENGINE_UNKNOWN_COLLECTION",
     "ENGINE_COLLECTIONS_MANIFEST_IS_AHEAD", "ENGINE_EACCESS",
     "ENGINE_NO_BUCKET", "ENGINE_AUTH_STALE", "ENGINE_DURABILITY_IMPOSSIBLE",
     "ENGINE_SYNC_WRITE_IN_PROGRESS", "ENGINE_SYNC_WRITE_AMBIGUOUS",
     "ENGINE_DCP_STREAMID_INVALID"}

\* the whitelist of remapErrorCode: the codes every client knows
RemapWhitelist ==
    {"ENGINE_SUCCESS", "ENGINE_KEY_ENOENT", "ENGINE_KEY_EEXISTS",
     "ENGINE_ENOMEM", "ENGINE_NOT_STORED", "ENGINE_EINVAL", "ENGINE_ENOTSUP",
     "ENGINE_EWOULDBLOCK", "ENGINE_E2BIG", "ENGINE_DISCONNECT",
     "ENGINE_NOT_MY_VBUCKET", "ENGINE_TMPFAIL", "ENGINE_ERANGE",
     "ENGINE_ROLLBACK", "ENGINE_EBUSY", "ENGINE_DELTA_BADVAL",
     "ENGINE_PREDICATE_FAILED", "ENGINE_FAILED"}

\* no call of remapErrorCode was made
NoRemap == [code |-> "none", ret |-> "none"]

\* what remapErrorCode(code) returns
RemappedCode_BreakDropped(code) ==
    IF xerror_support THEN code
    ELSE CASE code \in RemapWhitelist -> code
           [] code = "ENGINE_LOCKED" -> "ENGINE_KEY_EEXISTS"
           [] code = "ENGINE_LOCKED_TMPFAIL" -> "ENGINE_TMPFAIL"
           [] code \in {"ENGINE_UNKNOWN_COLLECTION",
                        "ENGINE_COLLECTIONS_MANIFEST_IS_AHEAD"} ->
                 IF collectionsSupported THEN code ELSE "ENGINE_EINVAL"
           [] code = "ENGINE_SYNC_WRITE_IN_PROGRESS" -> "ENGINE_TMPFAIL"
           [] OTHER -> code

RemappedCode(code) ==
    IF xerror_support THEN code
    ELSE CASE code \in RemapWhitelist -> code
           [] code = "ENGINE_LOCKED" -> "ENGINE_KEY_EEXISTS"
           [] code = "ENGINE_LOCKED_TMPFAIL" -> "ENGINE_TMPFAIL"
           [] code \in {"ENGINE_UNKNOWN_COLLECTION",
                        "ENGINE_COLLECTIONS_MANIFEST_IS_AHEAD"} ->
                 IF collectionsSupported THEN code ELSE "ENGINE_EINVAL"
           [] code = "ENGINE_SYNC_WRITE_IN_PROGRESS" -> "ENGINE_TMPFAIL"
           \* break: the client is not aware of the code
           [] OTHER -> "ENGINE_DISCONNECT"

RemapErrorCode(code) ==
    /\ remapLast' = [code |-> code, ret |-> RemappedCode(code)]
    /\ UNCHANGED <<xerror_support, collectionsSupported, iov, mutationLast,
                   callVars, dcpVars, moreVars, dmVars, kvVars, ftVars, collVars,
                   bgVars>>

\* ------------------------------------------------------------------------
\* Connection::mutation: the DcpMutation packet queued for a DCP consumer.
\* A byte is modelled by the name of the section it belongs to.
\* ------------------------------------------------------------------------
\* the extended metadata of an item holds up to MaxMeta bytes, its value up
\* to MaxValueLen bytes; up to MaxMutations packets are queued at a time
MaxMeta == 2
MaxValueLen == 2
MaxMutations == 1

\* sizeof(cb::mcbp::Request), sizeof(cb::mcbp::request::DcpMutationPayload),
\* sizeof(cb::mcbp::DcpStreamIdFrameInfo)
SizeofRequest == 24
SizeofDcpMutationPayload == 31
SizeofDcpStreamIdFrameInfo == 2

\* n bytes of a section
Bytes(section, n) == [i \in 1..n |-> section]

\* info.key: the key of the item, prefixed with its collection-ID
InfoKey == <<"collection-ID", "key">>

\* DocKey::makeDocKeyWithoutCollectionID
MakeDocKeyWithoutCollectionID(key) ==
    IF key # <<>> /\ Head(key) = "collection-ID" THEN Tail(key) ELSE key

\* cb::mcbp::DcpStreamId: 0 is no stream id
StreamIds == {0, 1}

\* the space left in the write buffer of the connection
WbufSizes ==
    {SizeofRequest + SizeofDcpMutationPayload,
     SizeofRequest + SizeofDcpMutationPayload + SizeofDcpStreamIdFrameInfo
        + MaxMeta}

\* the header of a packet that was not built
NoRequest ==
    [magic |-> "none", opcode |-> "none", extlen |-> 0, keylen |-> 0,
     bodylen |-> 0, framingExtraslen |-> 0]

NoMutation ==
    [ret |-> "none", sid |-> 0, req |-> NoRequest, nmeta |-> 0, queued |-> 0]

\* the buffers addIov has queued: a buffer of no bytes is not queued
AddIov(iovs, buf) == IF Len(buf) = 0 THEN iovs ELSE Append(iovs, buf)

\* the packets queued: the buffers that begin with a header
PacketsQueued == Cardinality({i \in 1..Len(iov) : iov[i][1] = "req"})

\* the header built for the key, the metadata and the value
MutationRequest(sid, key, nmeta, nbytes) ==
    [magic |-> IF sid # 0 THEN "AltClientRequest" ELSE "ClientRequest",
     opcode |-> "DcpMutation",
     extlen |-> SizeofDcpMutationPayload,
     keylen |-> Len(key),
     bodylen |-> SizeofDcpMutationPayload + Len(key) + nmeta + nbytes
                    + (IF sid # 0 THEN SizeofDcpStreamIdFrameInfo ELSE 0),
     framingExtraslen |-> IF sid # 0 THEN SizeofDcpStreamIdFrameInfo ELSE 0]

\* what the lambda copies into the write buffer: the header, the optional
\* stream-ID, the extras and the optional meta section
MutationHeader_MetaNotCopied(sid, nmeta) ==
    Bytes("req", SizeofRequest)
        \o (IF sid # 0 THEN Bytes("frameExtras", SizeofDcpStreamIdFrameInfo)
            ELSE <<>>)
        \o Bytes("extras", SizeofDcpMutationPayload)

MutationHeader(sid, nmeta) ==
    Bytes("req", SizeofRequest)
        \o (IF sid # 0 THEN Bytes("frameExtras", SizeofDcpStreamIdFrameInfo)
            ELSE <<>>)
        \o Bytes("extras", SizeofDcpMutationPayload)
        \o Bytes("meta", nmeta)

\* Connection::mutation(opaque, it, vbucket, by_seqno, rev_seqno, lock_time,
\* meta, nmeta, nru, sid) for an item with a value of nbytes bytes;
\* infoOk: bucket_get_item_info succeeds, reserveOk: reserveItem succeeds,
\* wbufSize: the space left in the write buffer
DcpMutation(sid, nmeta, nbytes, infoOk, reserveOk, wbufSize) ==
    /\ PacketsQueued < MaxMutations
    /\ LET key == IF collectionsSupported THEN InfoKey
                  ELSE MakeDocKeyWithoutCollectionID(InfoKey)
           req == MutationRequest(sid, key, nmeta, nbytes)
           headerSize == SizeofDcpMutationPayload + SizeofRequest + nmeta
                            + (IF sid # 0 THEN SizeofDcpStreamIdFrameInfo ELSE 0)
           queued == AddIov(AddIov(AddIov(iov, MutationHeader(sid, nmeta)), key),
                            Bytes("value", nbytes))
       IN
       IF ~infoOk \/ ~reserveOk
       THEN /\ mutationLast' = [ret |-> "ENGINE_FAILED", sid |-> sid,
                                req |-> NoRequest, nmeta |-> nmeta, queued |-> 0]
            /\ UNCHANGED iov
       ELSE IF wbufSize < headerSize
       THEN /\ mutationLast' = [ret |-> "ENGINE_E2BIG", sid |-> sid,
                                req |-> req, nmeta |-> nmeta, queued |-> 0]
            /\ UNCHANGED iov
       ELSE /\ iov' = queued
            /\ mutationLast' = [ret |-> "ENGINE_SUCCESS", sid |-> sid,
                                req |-> req, nmeta |-> nmeta,
                                queued |-> Len(queued) - Len(iov)]
    /\ UNCHANGED <<xerror_support, collectionsSupported, remapLast, callVars,
                   dcpVars, moreVars, dmVars, kvVars, ftVars, collVars, bgVars>>

\* Connection::addMsgHdr(true): the list of messages is reset for the next
\* packets
AddMsgHdr ==
    /\ iov # <<>>
    /\ iov' = <<>>
    /\ UNCHANGED <<xerror_support, collectionsSupported, remapLast,
                   mutationLast, callVars, dcpVars, moreVars, dmVars, kvVars, ftVars,
                   collVars,
                   bgVars>>

\* ------------------------------------------------------------------------
\* Connection::deletion (DcpDeletion v1) and Connection::deletion_v2
\* ------------------------------------------------------------------------
\* sizeof(cb::mcbp::request::DcpDeletionV1Payload): by_seqno, rev_seqno,
\* nmeta; sizeof(DcpDeletionV2Payload): by_seqno, rev_seqno, delete_time
SizeofDcpDeletionV1Payload == 18
SizeofDcpDeletionV2Payload == 20

\* what a byte of the stack that was never written may hold
UninitializedBytes == {"stack", "frameExtras"}

\* the blob with bytes written at offset
WriteAt(blob, offset, bytes) ==
    [i \in 1..Len(blob) |->
        IF i > offset /\ i <= offset + Len(bytes) THEN bytes[i - offset]
        ELSE blob[i]]

\* the header of a DcpDeletion
DeletionRequest(sid, payloadLen, key, nmeta, nbytes) ==
    [magic |-> IF sid # 0 THEN "AltClientRequest" ELSE "ClientRequest",
     opcode |-> "DcpDeletion",
     extlen |-> payloadLen,
     keylen |-> Len(key),
     bodylen |-> payloadLen + Len(key) + nmeta + nbytes
                    + (IF sid # 0 THEN SizeofDcpStreamIdFrameInfo ELSE 0),
     framingExtraslen |-> IF sid # 0 THEN SizeofDcpStreamIdFrameInfo ELSE 0]

\* Connection::deletion: the blob is not initialized (stack: what its bytes
\* hold); the header is written, the stream-ID after the header, the extras
\* at blob + sizeof(Request); packetBuffer is the blob up to the end of the
\* header, the extras and the optional stream-ID
DeletionPacketV1(sid, stack) ==
    LET frameInfoLen == IF sid # 0 THEN SizeofDcpStreamIdFrameInfo ELSE 0
        blob == Bytes(stack, SizeofRequest + SizeofDcpDeletionV1Payload
                                + SizeofDcpStreamIdFrameInfo)
        withReq == WriteAt(blob, 0, Bytes("req", SizeofRequest))
        withFrameInfo == WriteAt(withReq, SizeofRequest,
                                 Bytes("frameExtras", frameInfoLen))
        withExtras == WriteAt(withFrameInfo, SizeofRequest,
                              Bytes("extras", SizeofDcpDeletionV1Payload))
    IN SubSeq(withExtras, 1,
              SizeofRequest + SizeofDcpDeletionV1Payload + frameInfoLen)

\* Connection::deletionOrExpirationV2 of an explicit deletion: the blob is
\* zeroed; the extras are written at blob + sizeof(Request) + frameInfoLen
DeletionPacketV2(sid) ==
    LET frameInfoLen == IF sid # 0 THEN SizeofDcpStreamIdFrameInfo ELSE 0
        blob == Bytes("zero", SizeofRequest + SizeofDcpDeletionV2Payload
                                 + SizeofDcpStreamIdFrameInfo)
        withReq == WriteAt(blob, 0, Bytes("req", SizeofRequest))
        withFrameInfo == WriteAt(withReq, SizeofRequest,
                                 Bytes("frameExtras", frameInfoLen))
        withExtras == WriteAt(withFrameInfo, SizeofRequest + frameInfoLen,
                              Bytes("extras", SizeofDcpDeletionV2Payload))
    IN SubSeq(withExtras, 1,
              SizeofRequest + frameInfoLen + SizeofDcpDeletionV2Payload)

\* Connection::deletionInner: the packet, the key, the optional value and
\* the optional meta section are queued
DeletionInner(iovs, packet, key, nbytes, nmeta) ==
    AddIov(AddIov(AddIov(AddIov(iovs, packet), key), Bytes("value", nbytes)),
           Bytes("meta", nmeta))

NoDeletion ==
    [version |-> 0, ret |-> "none", sid |-> 0, req |-> NoRequest,
     nmeta |-> 0, nbytes |-> 0, queued |-> 0]

\* the variables the DcpDeletion functions leave alone
besidesDeletionVars ==
    <<xerror_support, collectionsSupported, remapLast, mutationLast, callVars,
      dcpVars, dmVars, kvVars, ftVars, collVars, bgVars, vbStateCount,
      lockVars, expiryVars, pagerVars, mockVars, visitVars, closeVars>>

\* a DcpDeletion is built and handed to deletionInner.  infoOk:
\* bucket_get_item_info succeeds, reserveOk: reserveItem succeeds, refused:
\* the version is not to be used on this connection, roomOk: the write
\* buffer has room for the packet, a collection-ID and the meta section
QueueDeletion(version, sid, nmeta, nbytes, payloadLen, packet, infoOk, reserveOk, refused, roomOk) ==
    /\ LET key == IF collectionsSupported THEN InfoKey
                  ELSE MakeDocKeyWithoutCollectionID(InfoKey)
           req == DeletionRequest(sid, payloadLen, key, nmeta, nbytes)
           queued == DeletionInner(iov, packet, key, nbytes, nmeta)
           last == [version |-> version, ret |-> "ENGINE_FAILED", sid |-> sid,
                    req |-> NoRequest, nmeta |-> nmeta, nbytes |-> nbytes,
                    queued |-> 0]
       IN
       IF ~infoOk \/ ~reserveOk \/ refused
       THEN /\ deletionLast' = last
            /\ UNCHANGED iov
       ELSE IF ~roomOk
       THEN /\ deletionLast' = [last EXCEPT !.ret = "ENGINE_E2BIG",
                                            !.req = req]
            /\ UNCHANGED iov
       ELSE /\ iov' = queued
            /\ deletionLast' = [last EXCEPT !.ret = "ENGINE_SUCCESS",
                                            !.req = req,
                                            !.queued = Len(queued) - Len(iov)]
    /\ UNCHANGED besidesDeletionVars

\* Connection::deletion(opaque, it, vbucket, by_seqno, rev_seqno, meta,
\* nmeta, sid) for an item with a value of nbytes bytes: it fails on a
\* connection that supports collections
DcpDeletion(sid, nmeta, nbytes, infoOk, reserveOk, roomOk, stack) ==
    /\ PacketsQueued < MaxMutations
    /\ QueueDeletion(1, sid, nmeta, nbytes, SizeofDcpDeletionV1Payload,
                     DeletionPacketV1(sid, stack), infoOk, reserveOk,
                     collectionsSupported, roomOk)

\* Connection::deletion_v2 (deletionOrExpirationV2 with
\* DeleteSource::Explicit): no extended meta in v2
DcpDeletionV2(sid, nbytes, infoOk, reserveOk, roomOk) ==
    /\ PacketsQueued < MaxMutations
    /\ QueueDeletion(2, sid, 0, nbytes, SizeofDcpDeletionV2Payload,
                     DeletionPacketV2(sid), infoOk, reserveOk, FALSE, roomOk)

\* ------------------------------------------------------------------------
\* DCP producer: the stream request of a consumer is answered from the
\* failover table of the partition
\* ------------------------------------------------------------------------
\* the start seqnos a consumer requests, and the number of requests it makes
MaxStartSeqno == 7
MaxStreamReqs == 2

\* the partition UUID of the first active, and the one minted when the
\* replica is promoted
UUID_A == 1
UUID_B == 2

\* the UUIDs a consumer requests a stream with: the two of the partition
\* and one the partition never had
ConsumerUuids == {UUID_A, UUID_B, UUID_B + 1}

\* the entries of the failover table ft a consumer at seqno may share,
\* newest first
EntriesUpTo(ft, seqno) == SelectSeq(ft, LAMBDA e : e.by_seqno <= seqno)

\* the response to a stream request (uuid, start_seqno): the newest entry
\* whose seqno <= start_seqno is selected; the request succeeds if the entry
\* is of the consumer's uuid, else the consumer rolls back to the seqno of
\* the entry; it rolls back to 0 if there is no such entry
StreamResponse_OldestSelected(ft, uuid, start_seqno) ==
    LET upTo == EntriesUpTo(ft, start_seqno) IN
    IF upTo = <<>> THEN [status |-> "Rollback", rollback_seqno |-> 0]
    ELSE IF upTo[Len(upTo)].vb_uuid = uuid
    THEN [status |-> "Success", rollback_seqno |-> 0]
    ELSE [status |-> "Rollback", rollback_seqno |-> upTo[Len(upTo)].by_seqno]

StreamResponse(ft, uuid, start_seqno) ==
    LET upTo == EntriesUpTo(ft, start_seqno) IN
    IF upTo = <<>> THEN [status |-> "Rollback", rollback_seqno |-> 0]
    ELSE IF Head(upTo).vb_uuid = uuid
    THEN [status |-> "Success", rollback_seqno |-> 0]
    ELSE [status |-> "Rollback", rollback_seqno |-> Head(upTo).by_seqno]

\* the consumer requests stream s of the active partition with
\* (uuid, start_seqno) and the snapshot [start_seqno, start_seqno]; on
\* Success the stream is opened, registers its cursor and begins at the
\* seqno after start_seqno
StreamReq(s, uuid, start_seqno) ==
    /\ vbMap # NoVB
    /\ vbState[vbMap] = vbucket_state_active
    /\ s \notin dcpStreams
    /\ Len(streamReqLog) < MaxStreamReqs
    /\ LET rsp == StreamResponse(failovers[vbMap], uuid, start_seqno) IN
       /\ streamReqLog' =
             Append(streamReqLog,
                    [uuid |-> uuid, start_seqno |-> start_seqno,
                     snap_start |-> start_seqno, snap_end |-> start_seqno,
                     ft |-> failovers[vbMap],
                     status |-> rsp.status,
                     rollback_seqno |-> rsp.rollback_seqno,
                     begins |-> IF rsp.status = "Success"
                                THEN start_seqno + 1 ELSE 0])
       /\ dcpStreams' = IF rsp.status = "Success" THEN dcpStreams \cup {s}
                        ELSE dcpStreams
       /\ cursors' = IF rsp.status = "Success"
                     THEN [cursors EXCEPT ![vbMap] = @ \cup {s}]
                     ELSE cursors
    /\ UNCHANGED <<dmVars, callVars, connVars, moreVars, bgVars, kvVars,
                   collVars, failovers, uuidsMinted, vbHighSeqno, rollbackLast>>

\* ------------------------------------------------------------------------
\* The locks of the bucket and of one partition, and the order in which the
\* operations of KVBucket take them
\* ------------------------------------------------------------------------
\* KVBucket::vbsetMutex, KVBucket::vb_mutexes[vbid] (getLockedVBucket),
\* VBucket::getStateLock(), the lock of the CheckpointManager, of a shard of
\* the HashTable, of the DurabilityMonitor, and Collections::Manager::lock
vbsetMutex == "vbsetMutex"
vb_mutex == "vb_mutexes"
stateLock == "stateLock"
checkpointLock == "checkpoint"
hashBucketLock == "hashBucketLock"
durabilityLock == "durabilityMonitor"
managerLock == "Collections::Manager::lock"

\* the calls made concurrently, one thread each
LockThreads ==
    {"setVBucketState", "deleteVBucket", "resetVBucket", "rollback",
     "setCollections", "deleteExpiredItem", "mutator", "reset"}

\* lock operations: a lock taken exclusively, in read or in write mode,
\* std::try_to_lock, and the release of a lock
Lk(l) == [i |-> "lock", l |-> l, mode |-> "X"]
RLk(l) == [i |-> "lock", l |-> l, mode |-> "R"]
WLk(l) == [i |-> "lock", l |-> l, mode |-> "W"]
TryLk(l) == [i |-> "try_to_lock", l |-> l, mode |-> "X"]
Un(l) == [i |-> "unlock", l |-> l, mode |-> "X"]

\* scheduleVBStatePersist: queueSetVBState takes the lock of the checkpoint
\* manager
ScheduleVBStatePersist == <<Lk(checkpointLock), Un(checkpointLock)>>
\* Collections::Manager::update(VBucket&)
ManagerUpdateVB == <<Lk(managerLock), Un(managerLock)>>

\* KVBucket::setVBucketState: the state asked for is the current one; the
\* partition changes state (vbMap.setState takes the state lock in write
\* mode), and is updated from the manifest when a replica becomes active;
\* the partition is created, and updated from the manifest when active
SetVBucketStateScripts ==
    {<<Lk(vbsetMutex), Un(vbsetMutex)>>,
     <<Lk(vbsetMutex), WLk(stateLock), Un(stateLock)>>
        \o ScheduleVBStatePersist \o <<Un(vbsetMutex)>>,
     <<Lk(vbsetMutex), WLk(stateLock), Un(stateLock)>> \o ManagerUpdateVB
        \o ScheduleVBStatePersist \o <<Un(vbsetMutex)>>,
     <<Lk(vbsetMutex)>> \o ScheduleVBStatePersist \o <<Un(vbsetMutex)>>,
     <<Lk(vbsetMutex)>> \o ManagerUpdateVB \o ScheduleVBStatePersist
        \o <<Un(vbsetMutex)>>}

\* KVBucket::deleteVBucket: lockedVB->setState(dead) takes the state lock in
\* write mode
DeleteVBucketScripts ==
    {<<Lk(vbsetMutex), Lk(vb_mutex), WLk(stateLock), Un(stateLock),
       Un(vb_mutex), Un(vbsetMutex)>>}

\* KVBucket::resetVBucket: no partition; the partition is dropped and
\* created again by setVBucketState_UNLOCKED
ResetVBucketScripts ==
    {<<Lk(vbsetMutex), Lk(vb_mutex), Un(vb_mutex), Un(vbsetMutex)>>,
     <<Lk(vbsetMutex), Lk(vb_mutex)>> \o ScheduleVBStatePersist
        \o <<Un(vb_mutex), Un(vbsetMutex)>>,
     <<Lk(vbsetMutex), Lk(vb_mutex)>> \o ManagerUpdateVB
        \o ScheduleVBStatePersist \o <<Un(vb_mutex), Un(vbsetMutex)>>}

\* KVBucket::rollback: no partition; the partition is rewound or the
\* rollback aborts; the partition (replica or pending) is reset
RollbackScripts ==
    {<<Lk(vbsetMutex), TryLk(vb_mutex), Un(vb_mutex), Un(vbsetMutex)>>,
     <<Lk(vbsetMutex), TryLk(vb_mutex), RLk(stateLock), Un(stateLock),
       Un(vb_mutex), Un(vbsetMutex)>>,
     <<Lk(vbsetMutex), TryLk(vb_mutex), RLk(stateLock)>>
        \o ScheduleVBStatePersist
        \o <<Un(stateLock), Un(vb_mutex), Un(vbsetMutex)>>}

\* KVBucket::setCollections: Manager::update(KVBucket&, manifest) tries the
\* lock of the manager
SetCollectionsScripts ==
    {<<Lk(vbsetMutex), TryLk(managerLock), Un(managerLock), Un(vbsetMutex)>>}

\* KVBucket::deleteExpiredItem: the partition is not active; the item is
\* deleted and the expiration queued under the lock of its shard
DeleteExpiredItemScripts ==
    {<<RLk(stateLock), Un(stateLock)>>,
     <<RLk(stateLock), Lk(hashBucketLock), Lk(checkpointLock),
       Un(checkpointLock), Un(hashBucketLock), Un(stateLock)>>}

\* a client mutator with the queue taken before the shard
MutatorScripts_CheckpointFirst ==
    {<<RLk(stateLock), Un(stateLock)>>,
     <<RLk(stateLock), Lk(checkpointLock), Lk(hashBucketLock),
       Un(hashBucketLock), Un(checkpointLock), Un(stateLock)>>}

\* a client mutator (set, add, replace, delete): not admitted; the hash
\* table is mutated and the item queued under the lock of the shard; of a
\* durable write the DurabilityMonitor is told before the shard is unlocked
MutatorScripts ==
    {<<RLk(stateLock), Un(stateLock)>>,
     <<RLk(stateLock), Lk(hashBucketLock), Lk(checkpointLock),
       Un(checkpointLock), Un(hashBucketLock), Un(stateLock)>>,
     <<RLk(stateLock), Lk(hashBucketLock), Lk(checkpointLock),
       Un(checkpointLock), Lk(durabilityLock), Un(durabilityLock),
       Un(hashBucketLock), Un(stateLock)>>}

\* KVBucket::reset: the hash table and the checkpoints of the locked
\* partition are cleared
ResetScripts ==
    {<<Lk(vb_mutex), Lk(hashBucketLock), Un(hashBucketLock),
       Lk(checkpointLock), Un(checkpointLock), Un(vb_mutex)>>}

LockScripts(t) ==
    CASE t = "setVBucketState" -> SetVBucketStateScripts
      [] t = "deleteVBucket" -> DeleteVBucketScripts
      [] t = "resetVBucket" -> ResetVBucketScripts
      [] t = "rollback" -> RollbackScripts
      [] t = "setCollections" -> SetCollectionsScripts
      [] t = "deleteExpiredItem" -> DeleteExpiredItemScripts
      [] t = "mutator" -> MutatorScripts
      [] t = "reset" -> ResetScripts

\* the threads other than t that keep t from taking lock l in the mode
LockHolders(t, l, mode) ==
    {u \in LockThreads \ {t} :
        \E n \in 1..Len(locksHeld[u]) :
           /\ locksHeld[u][n].l = l
           /\ ~(mode = "R" /\ locksHeld[u][n].mode = "R")}

\* the destructors of the holders of a call that returns: the locks held
\* are released, the last taken first
ReleaseAll(held) == [n \in 1..Len(held) |-> Un(held[Len(held) + 1 - n].l)]

\* thread t begins a call and takes its first lock (while it waits for that
\* lock it holds none)
LkCall(t, script) ==
    /\ lockScript[t] = <<>>
    /\ script \in LockScripts(t)
    /\ LockHolders(t, Head(script).l, Head(script).mode) = {}
    /\ locksHeld' = [locksHeld EXCEPT ![t] =
                        <<[l |-> Head(script).l, mode |-> Head(script).mode]>>]
    /\ lockScript' = [lockScript EXCEPT ![t] = Tail(script)]
    /\ UNCHANGED besidesLockVars

\* thread t takes the lock it waits for, once no other thread keeps it
LkLock(t) ==
    /\ lockScript[t] # <<>>
    /\ Head(lockScript[t]).i = "lock"
    /\ LockHolders(t, Head(lockScript[t]).l, Head(lockScript[t]).mode) = {}
    /\ locksHeld' = [locksHeld EXCEPT ![t] =
                        Append(@, [l |-> Head(lockScript[t]).l,
                                   mode |-> Head(lockScript[t]).mode])]
    /\ lockScript' = [lockScript EXCEPT ![t] = Tail(@)]
    /\ UNCHANGED besidesLockVars

\* std::try_to_lock: the lock is taken if free, else the call returns
LkTryLock(t) ==
    /\ lockScript[t] # <<>>
    /\ Head(lockScript[t]).i = "try_to_lock"
    /\ IF LockHolders(t, Head(lockScript[t]).l, "X") = {}
       THEN /\ locksHeld' = [locksHeld EXCEPT ![t] =
                               Append(@, [l |-> Head(lockScript[t]).l,
                                          mode |-> "X"])]
            /\ lockScript' = [lockScript EXCEPT ![t] = Tail(@)]
       ELSE /\ lockScript' = [lockScript EXCEPT ![t] = ReleaseAll(locksHeld[t])]
            /\ UNCHANGED locksHeld
    /\ UNCHANGED besidesLockVars

\* thread t releases a lock
LkUnlock(t) ==
    /\ lockScript[t] # <<>>
    /\ Head(lockScript[t]).i = "unlock"
    /\ locksHeld' = [locksHeld EXCEPT ![t] =
                        SelectSeq(@, LAMBDA h : h.l # Head(lockScript[t]).l)]
    /\ lockScript' = [lockScript EXCEPT ![t] = Tail(@)]
    /\ UNCHANGED besidesLockVars

\* ------------------------------------------------------------------------
\* KVBucket::deleteExpiredItem
\* ------------------------------------------------------------------------
PROTOCOL_BINARY_RAW_BYTES == "raw"
PROTOCOL_BINARY_DATATYPE_XATTR == "xattr"
Datatypes == {PROTOCOL_BINARY_RAW_BYTES, PROTOCOL_BINARY_DATATYPE_XATTR}

\* the sizes of the values
ItemSizes == {0, 1}

\* the expired items handed to deleteExpiredItem: a temp item has a
\* negative seqno
ExpiredItems == [bySeqno : {-1, 1}, nbytes : ItemSizes, datatype : Datatypes]

\* what the KVStore answers to the get of KVBucket::getValue
GetValues ==
    [status : {"failed"}, deleted : {FALSE}, nbytes : {0},
     datatype : {PROTOCOL_BINARY_RAW_BYTES}]
        \cup [status : {"success"}, deleted : BOOLEAN, nbytes : ItemSizes,
              datatype : Datatypes]

\* what the pre_expiry hook of the server answers: false, or true and the
\* payload to use
HookAnswers ==
    [supplied : {FALSE}, nbytes : {0}, datatype : {PROTOCOL_BINARY_RAW_BYTES}]
        \cup [supplied : {TRUE}, nbytes : ItemSizes, datatype : Datatypes]

\* KVBucket::getValue: the value is replaced by the one on disk unless the
\* get fails or the item on disk is deleted; the datatype is set from what
\* was loaded
GetValue(it, gv) ==
    IF gv.status # "success" THEN it
    ELSE [it EXCEPT !.nbytes = IF gv.deleted THEN @ ELSE gv.nbytes,
                    !.datatype = gv.datatype]

\* the hook declines and the datatype of the item is left as it was
RunPreExpiryHook_DatatypeKept(it, info) ==
    IF info.supplied
    THEN [it EXCEPT !.nbytes = info.nbytes, !.datatype = info.datatype]
    ELSE [it EXCEPT !.nbytes = 0]

\* KVBucket::runPreExpiryHook: the payload the hook supplies is used; when
\* it declines the document is made empty and raw
RunPreExpiryHook(it, info) ==
    IF info.supplied
    THEN [it EXCEPT !.nbytes = info.nbytes, !.datatype = info.datatype]
    ELSE [it EXCEPT !.nbytes = 0, !.datatype = PROTOCOL_BINARY_RAW_BYTES]

\* is the hook run for the item: positive seqnos (no temp items) and only
\* items with a value
HookRuns(it) == it.bySeqno >= 0 /\ it.nbytes # 0

NoItem == [bySeqno |-> 0, nbytes |-> 0, datatype |-> PROTOCOL_BINARY_RAW_BYTES]

NoHookAnswer ==
    [supplied |-> FALSE, nbytes |-> 0, datatype |-> PROTOCOL_BINARY_RAW_BYTES]

IdleExpiry == [pc |-> "idle", vb |-> NoVB, it |-> NoItem, hooked |-> FALSE,
               info |-> NoHookAnswer]

ExpiryOutcome(vb, state, hooked, info, it, deleted) ==
    [vb |-> vb, state |-> state, hooked |-> hooked, info |-> info,
     it |-> it, deleted |-> deleted]

\* KVBucket::deleteExpiredItem up to the ReaderLockHolder: the partition is
\* looked up; the value of an xattr item without one is fetched; the hook
\* is run
DeleteExpiredItemHook(it, gv, info) ==
    /\ expiry.pc = "idle"
    /\ IF vbMap = NoVB
       THEN /\ expiryLast' = ExpiryOutcome(NoVB, "none", FALSE, NoHookAnswer,
                                           it, FALSE)
            /\ UNCHANGED expiry
       ELSE LET fetched == IF it.datatype = PROTOCOL_BINARY_DATATYPE_XATTR
                                 /\ it.nbytes = 0
                           THEN GetValue(it, gv) ELSE it
            IN /\ expiry' = [pc |-> "hooked", vb |-> vbMap,
                             it |-> IF HookRuns(fetched)
                                    THEN RunPreExpiryHook(fetched, info)
                                    ELSE fetched,
                             hooked |-> HookRuns(fetched),
                             info |-> IF HookRuns(fetched) THEN info
                                      ELSE NoHookAnswer]
               /\ UNCHANGED expiryLast
    /\ UNCHANGED besidesExpiryVars

\* the state lock is taken in read mode; in state active the item is handed
\* to VBucket::deleteExpiredItem, which deletes it and queues the expiration
DeleteExpiredItemLocked ==
    /\ expiry.pc = "hooked"
    /\ expiryLast' = ExpiryOutcome(expiry.vb, vbState[expiry.vb],
                                   expiry.hooked, expiry.info, expiry.it,
                                   vbState[expiry.vb] = vbucket_state_active)
    /\ expiry' = IdleExpiry
    /\ UNCHANGED besidesExpiryVars

\* no item has expired
InitExpiry ==
    /\ expiry = IdleExpiry
    /\ expiryLast = [vb |-> NoVB, state |-> "none", hooked |-> FALSE,
                     info |-> NoHookAnswer, it |-> NoItem, deleted |-> FALSE]

\* ------------------------------------------------------------------------
\* The expiry pager of the bucket (KVBucket::expiryPager).  Every function
\* holds expiryPager.mutex from its first statement to its return: each is
\* one step
\* ------------------------------------------------------------------------
\* the ExpiredItemPager tasks scheduled in a behaviour
MaxSchedules == 4

\* the values of exp_pager_stime
Sleeptimes == {10, 20}

\* the values of exp_pager_initial_run_time; NoTasktime: none is given
NoTasktime == -1
Tasktimes == {NoTasktime, 3}

\* ExecutorPool::cancel is not called
Cancel_Nothing(tasks, id) == tasks

\* ExecutorPool::cancel(taskId): the task of that id leaves the pool
Cancel(tasks, id) == {t \in tasks : t.id # id}

\* ExecutorPool::schedule of a new ExpiredItemPager: the pool with the task
Schedule(tasks, id, sleeptime, tasktime) ==
    tasks \cup {[id |-> id, sleeptime |-> sleeptime, tasktime |-> tasktime]}

PagerCall(fn) ==
    [fn |-> fn, enabled |-> expiryPager.enabled, call |-> 1 - pagerLast.call]

\* KVBucket::setExpiryPagerSleeptime
SetExpiryPagerSleeptime(val) ==
    /\ expiryPager.initialized
    /\ expiryPager.enabled => nextTaskId < MaxSchedules
    /\ IF expiryPager.enabled
       THEN /\ scheduledTasks' =
                  Schedule(Cancel(scheduledTasks, expiryPager.task),
                           nextTaskId + 1, val, NoTasktime)
            /\ nextTaskId' = nextTaskId + 1
            /\ expiryPager' = [expiryPager EXCEPT !.sleeptime = val,
                                                  !.task = nextTaskId + 1]
       ELSE /\ scheduledTasks' = Cancel(scheduledTasks, expiryPager.task)
            /\ expiryPager' = [expiryPager EXCEPT !.sleeptime = val]
            /\ UNCHANGED nextTaskId
    /\ pagerLast' = PagerCall("setExpiryPagerSleeptime")
    /\ UNCHANGED besidesPagerVars

\* KVBucket::setExpiryPagerTasktime
SetExpiryPagerTasktime(val) ==
    /\ expiryPager.initialized
    /\ expiryPager.enabled => nextTaskId < MaxSchedules
    /\ IF expiryPager.enabled
       THEN /\ scheduledTasks' =
                  Schedule(Cancel(scheduledTasks, expiryPager.task),
                           nextTaskId + 1, expiryPager.sleeptime, val)
            /\ nextTaskId' = nextTaskId + 1
            /\ expiryPager' = [expiryPager EXCEPT !.task = nextTaskId + 1]
       ELSE UNCHANGED <<scheduledTasks, nextTaskId, expiryPager>>
    /\ pagerLast' = PagerCall("setExpiryPagerTasktime")
    /\ UNCHANGED besidesPagerVars

\* KVBucket::enableExpiryPager
EnableExpiryPager ==
    /\ expiryPager.initialized
    /\ ~expiryPager.enabled => nextTaskId < MaxSchedules
    /\ IF ~expiryPager.enabled
       THEN /\ scheduledTasks' =
                  Schedule(Cancel(scheduledTasks, expiryPager.task),
                           nextTaskId + 1, expiryPager.sleeptime, NoTasktime)
            /\ nextTaskId' = nextTaskId + 1
            /\ expiryPager' = [expiryPager EXCEPT !.enabled = TRUE,
                                                  !.task = nextTaskId + 1]
       ELSE UNCHANGED <<scheduledTasks, nextTaskId, expiryPager>>
    /\ pagerLast' = PagerCall("enableExpiryPager")
    /\ UNCHANGED besidesPagerVars

\* KVBucket::disableExpiryPager
DisableExpiryPager ==
    /\ expiryPager.initialized
    /\ IF expiryPager.enabled
       THEN /\ scheduledTasks' = Cancel(scheduledTasks, expiryPager.task)
            /\ expiryPager' = [expiryPager EXCEPT !.enabled = FALSE]
       ELSE UNCHANGED <<scheduledTasks, expiryPager>>
    /\ pagerLast' = PagerCall("disableExpiryPager")
    /\ UNCHANGED <<nextTaskId, besidesPagerVars>>

\* KVBucket::initializeExpiryPager: enabled is set from the configuration,
\* then setExpiryPagerSleeptime(config.getExpPagerStime())
InitializeExpiryPager(isExpPagerEnabled, stime) ==
    /\ ~expiryPager.initialized
    /\ nextTaskId < MaxSchedules
    /\ IF isExpPagerEnabled
       THEN /\ scheduledTasks' =
                  Schedule(Cancel(scheduledTasks, expiryPager.task),
                           nextTaskId + 1, stime, NoTasktime)
            /\ nextTaskId' = nextTaskId + 1
            /\ expiryPager' = [enabled |-> TRUE, sleeptime |-> stime,
                               task |-> nextTaskId + 1, initialized |-> TRUE]
       ELSE /\ scheduledTasks' = Cancel(scheduledTasks, expiryPager.task)
            /\ expiryPager' = [enabled |-> FALSE, sleeptime |-> stime,
                               task |-> expiryPager.task,
                               initialized |-> TRUE]
            /\ UNCHANGED nextTaskId
    /\ pagerLast' = [fn |-> "initializeExpiryPager",
                     enabled |-> isExpPagerEnabled,
                     call |-> 1 - pagerLast.call]
    /\ UNCHANGED besidesPagerVars

\* the bucket is constructed: nothing is scheduled
InitPager ==
    /\ expiryPager = [enabled |-> FALSE, sleeptime |-> 0, task |-> 0,
                      initialized |-> FALSE]
    /\ scheduledTasks = {}
    /\ nextTaskId = 0
    /\ pagerLast = [fn |-> "none", enabled |-> FALSE, call |-> 0]

\* ------------------------------------------------------------------------
\* The EWOULDBLOCK wrappers of the mock server: do_blocking_engine_call and
\* call_engine_and_handle_EWOULDBLOCK call an engine function for a cookie
\* and wait on the condition variable of the cookie while it would block
\* ------------------------------------------------------------------------
\* the waits of a call
MaxBlocks == 4

EngineWrappers ==
    {"do_blocking_engine_call", "call_engine_and_handle_EWOULDBLOCK"}

\* what the engine function returns, and the statuses a cookie is notified
\* with
EngineResults ==
    {"ENGINE_SUCCESS", "ENGINE_EWOULDBLOCK", "ENGINE_KEY_ENOENT",
     "ENGINE_NOT_MY_VBUCKET"}
NotifyStatuses == {"ENGINE_SUCCESS", "ENGINE_TMPFAIL", "ENGINE_DISCONNECT"}

NoEngineCall ==
    [fn |-> "none", pc |-> "idle", ret |-> "none", ncalls |-> 0,
     nwaits |-> 0, nsuccess |-> 0]

\* the wrapper has called engine_function(), which returned ret: it waits
\* (cb_cond_wait releases the mutex) while the function would block and the
\* cookie handles it, else it leaves the mutex and returns
AfterEngineFunction(ret) ==
    IF ret = "ENGINE_EWOULDBLOCK" /\ mockCookie.handle_ewouldblock
    THEN /\ engineCall' = [engineCall EXCEPT !.pc = "waiting",
                                             !.ncalls = @ + 1,
                                             !.nwaits = @ + 1]
         /\ mockCookie' = [mockCookie EXCEPT !.nblocks = @ + 1,
                                             !.mutex = "free"]
    ELSE /\ engineCall' = [engineCall EXCEPT !.pc = "returned",
                                             !.ret = ret,
                                             !.ncalls = @ + 1]
         /\ mockCookie' = [mockCookie EXCEPT !.mutex = "free"]

\* the wrapper is called for the cookie: nblocks is reset, the mutex of the
\* cookie entered, the engine function called
CallEngine(fn, handle_ewouldblock, ret) ==
    /\ engineCall.pc \in {"idle", "returned"}
    /\ mockCookie.mutex = "free"
    /\ ret = "ENGINE_EWOULDBLOCK" /\ handle_ewouldblock
          => mockCookie.nblocks < MaxBlocks
    /\ LET c == [mockCookie EXCEPT !.nblocks = 0,
                                   !.handle_ewouldblock = handle_ewouldblock,
                                   !.mutex = "held"]
           call == [NoEngineCall EXCEPT !.fn = fn, !.ncalls = 1]
       IN IF ret = "ENGINE_EWOULDBLOCK" /\ handle_ewouldblock
          THEN /\ engineCall' = [call EXCEPT !.pc = "waiting", !.nwaits = 1]
               /\ mockCookie' = [c EXCEPT !.nblocks = 1, !.mutex = "free"]
          ELSE /\ engineCall' = [call EXCEPT !.pc = "returned", !.ret = ret]
               /\ mockCookie' = [c EXCEPT !.mutex = "free"]
    /\ UNCHANGED besidesMockVars

\* notify_io_complete: the engine notifies the waiting cookie with status
NotifyIoComplete(status) ==
    /\ engineCall.pc = "waiting"
    /\ mockCookie.mutex = "free"
    /\ mockCookie' = [mockCookie EXCEPT !.status = status]
    /\ engineCall' = [engineCall EXCEPT
                        !.pc = "notified",
                        !.nsuccess = IF status = "ENGINE_SUCCESS" THEN @ + 1
                                     ELSE @]
    /\ UNCHANGED besidesMockVars

\* do_blocking_engine_call leaves cb_cond_wait holding the mutex: with
\* status ENGINE_SUCCESS it calls the engine function again, with another
\* status it returns that status from inside the loop
WakeDoBlocking(ret) ==
    /\ engineCall.pc = "notified"
    /\ engineCall.fn = "do_blocking_engine_call"
    /\ mockCookie.mutex = "free"
    /\ (ret = "ENGINE_EWOULDBLOCK" /\ mockCookie.status = "ENGINE_SUCCESS")
          => mockCookie.nblocks < MaxBlocks
    /\ IF mockCookie.status = "ENGINE_SUCCESS"
       THEN AfterEngineFunction(ret)
       ELSE /\ engineCall' = [engineCall EXCEPT !.pc = "returned",
                                                !.ret = mockCookie.status]
            /\ mockCookie' = [mockCookie EXCEPT !.mutex = "held"]
    /\ UNCHANGED besidesMockVars

\* call_engine_and_handle_EWOULDBLOCK leaves cb_cond_wait holding the
\* mutex: ret = c->status, and the loop goes on only with ENGINE_SUCCESS;
\* else the mutex is left and the status returned
WakeCallEngine(ret) ==
    /\ engineCall.pc = "notified"
    /\ engineCall.fn = "call_engine_and_handle_EWOULDBLOCK"
    /\ mockCookie.mutex = "free"
    /\ (ret = "ENGINE_EWOULDBLOCK" /\ mockCookie.status = "ENGINE_SUCCESS")
          => mockCookie.nblocks < MaxBlocks
    /\ IF mockCookie.status = "ENGINE_SUCCESS"
       THEN AfterEngineFunction(ret)
       ELSE /\ engineCall' = [engineCall EXCEPT !.pc = "returned",
                                                !.ret = mockCookie.status]
            /\ mockCookie' = [mockCookie EXCEPT !.mutex = "free"]
    /\ UNCHANGED besidesMockVars

\* a cookie nothing is called for
InitMock ==
    /\ mockCookie = [mutex |-> "free", nblocks |-> 0,
                     status |-> "ENGINE_SUCCESS", handle_ewouldblock |-> TRUE]
    /\ engineCall = NoEngineCall

\* ------------------------------------------------------------------------
\* VBCBAdaptor: a task that gives the partitions of the bucket to a
\* visitor, one per run
\* ------------------------------------------------------------------------
\* the partition ids of the map the adaptor walks
NumVisitBuckets == 3

VisitIds == 0 .. (NumVisitBuckets - 1)

\* the sequences that enumerate the ids of S, each once
Enumerations(S) ==
    {q \in [1 .. Cardinality(S) -> S] :
        \A i, j \in 1 .. Cardinality(S) : q[i] = q[j] => i = j}

\* the lists getBuckets() can give
BucketLists == UNION {Enumerations(S) : S \in SUBSET VisitIds}

NoRun == [paused |-> FALSE, visited |-> <<>>, popped |-> 0, ret |-> TRUE]

NoAdaptor ==
    [state |-> "none", captured |-> <<>>, vbList |-> <<>>, currentvb |-> 0,
     visited |-> <<>>, completes |-> 0, last |-> NoRun]

\* pauseVisitor() is asked, and answers pause, only for a partition that
\* exists
PauseAsked_OfAnyId(exists, pause) == pause
PauseAsked(exists, pause) == exists /\ pause

\* VBCBAdaptor::VBCBAdaptor: the ids of the map that pass the filter of the
\* visitor are pushed onto vbList, in the order getBuckets() gives them
ConstructAdaptor(vbFilter, buckets) ==
    /\ adaptor.state = "none"
    /\ buckets \in Enumerations(bucketsInMap \cap vbFilter)
    /\ adaptor' = [NoAdaptor EXCEPT !.state = "scheduled",
                                    !.captured = buckets,
                                    !.vbList = buckets]
    /\ UNCHANGED <<bucketsInMap, visitorMayPause>>
    /\ UNCHANGED besidesVisitVars

\* VBCBAdaptor::run
RunAdaptor(pause) ==
    /\ adaptor.state \in {"scheduled", "snoozed"}
    /\ pause => visitorMayPause
    /\ LET nonEmpty == adaptor.vbList # <<>>
           front == IF nonEmpty THEN Head(adaptor.vbList)
                    ELSE adaptor.currentvb
           exists == nonEmpty /\ front \in bucketsInMap
       IN IF PauseAsked(exists, pause)
          THEN adaptor' = [adaptor EXCEPT
                             !.currentvb = front,
                             !.state = "snoozed",
                             !.last = [NoRun EXCEPT !.paused = TRUE]]
          ELSE LET vbList2 == IF nonEmpty THEN Tail(adaptor.vbList)
                              ELSE adaptor.vbList
                   isdone == vbList2 = <<>>
               IN adaptor' = [adaptor EXCEPT
                     !.currentvb = front,
                     !.vbList = vbList2,
                     !.visited = IF exists THEN Append(@, front) ELSE @,
                     !.completes = IF isdone THEN @ + 1 ELSE @,
                     !.state = IF isdone THEN "done" ELSE "scheduled",
                     !.last = [paused |-> FALSE,
                               visited |-> IF exists THEN <<front>>
                                           ELSE <<>>,
                               popped |-> IF nonEmpty THEN 1 ELSE 0,
                               ret |-> ~isdone]]
    /\ UNCHANGED <<bucketsInMap, visitorMayPause>>
    /\ UNCHANGED besidesVisitVars

\* a partition is deleted from the map while the task is walking
DeleteVisitedBucket(id) ==
    /\ id \in bucketsInMap
    /\ bucketsInMap' = bucketsInMap \ {id}
    /\ UNCHANGED <<adaptor, visitorMayPause>>
    /\ UNCHANGED besidesVisitVars

\* the visitor has no reason to pause any more
VisitorStopsPausing ==
    /\ visitorMayPause
    /\ visitorMayPause' = FALSE
    /\ UNCHANGED <<bucketsInMap, adaptor>>
    /\ UNCHANGED besidesVisitVars

\* every partition is in the map, no task is made
InitVisit ==
    /\ bucketsInMap = VisitIds
    /\ adaptor = NoAdaptor
    /\ visitorMayPause = TRUE

\* ------------------------------------------------------------------------
\* Connection::close: a connection that is shut down is closed at once, or
\* waits in pending_close for the engine to let go of it
\* ------------------------------------------------------------------------
\* the references held on a connection or on a cookie
MaxRefcount == 2

\* the cookies of a connection
NumCloseCookies == 2

CloseCookieIds == 1 .. NumCloseCookies

\* what the constructor of Cookie makes
NewCookie ==
    [present |-> TRUE, refcount |-> 0, ewouldblock |-> FALSE,
     request |-> FALSE]

\* an entry of cookies that holds no cookie
NullCookie == [NewCookie EXCEPT !.present = FALSE]

NoClose ==
    [called |-> FALSE, ret |-> FALSE, resets |-> {},
     disconnects |-> [i \in CloseCookieIds |-> 0]]

\* the loop over the cookies: rc adds up the refcounts (a uint32_t, far
\* from wrapping with the references modelled), ewb is set by a cookie
\* that is blocked, a cookie that is not blocked is reset
RECURSIVE ScanCookies(_, _, _)
ScanCookies(cookies, i, acc) ==
    IF i > Len(cookies) THEN acc
    ELSE LET cookie == cookies[i]
         IN IF ~cookie.present
            THEN ScanCookies(cookies, i + 1, acc)
            ELSE ScanCookies(cookies, i + 1,
                    [rc |-> acc.rc + cookie.refcount,
                     ewb |-> acc.ewb \/ cookie.ewouldblock,
                     resets |-> IF cookie.ewouldblock THEN acc.resets
                                ELSE acc.resets \union {i}])

\* whether close() leaves the connection in pending_close
ClosePending_IgnoresRefcount(rc, ewb) == ewb
ClosePending(rc, ewb) == rc > 1 \/ ewb

\* Connection::close, with propagateDisconnect
CloseConnection ==
    /\ closing.state \in {"closing", "pending_close"}
    /\ LET scan == ScanCookies(closing.cookies, 1,
                      [rc |-> closing.refcount, ewb |-> FALSE,
                       resets |-> {}])
           ewb == IF closing.dcp THEN FALSE ELSE scan.ewb
           pending == ClosePending(scan.rc, ewb)
       IN /\ closing' =
                [closing EXCEPT
                   !.cookies = [i \in CloseCookieIds |->
                                   IF i \in scan.resets
                                   THEN [@[i] EXCEPT !.request = FALSE]
                                   ELSE @[i]],
                   !.registered_in_libevent =
                       IF closing.state = "closing" THEN FALSE ELSE @,
                   !.state = IF pending THEN "pending_close"
                             ELSE "immediate_close"]
          /\ closeLast' =
                [called |-> TRUE,
                 ret |-> ~pending,
                 resets |-> scan.resets,
                 disconnects |-> [i \in CloseCookieIds |->
                                     IF closing.cookies[i].present THEN 1
                                     ELSE 0]]
    /\ UNCHANGED besidesCloseVars

\* the connection is shut down
InitiateShutdown ==
    /\ closing.state = "running"
    /\ closing' = [closing EXCEPT !.state = "closing"]
    /\ UNCHANGED closeLast
    /\ UNCHANGED besidesCloseVars

\* the connection gets another cookie
EmplaceCookie(i) ==
    /\ closing.state = "running"
    /\ ~closing.cookies[i].present
    /\ closing' = [closing EXCEPT !.cookies[i] = NewCookie]
    /\ UNCHANGED closeLast
    /\ UNCHANGED besidesCloseVars

\* the connection is opened for DCP
OpenDcpConnection ==
    /\ closing.state = "running"
    /\ ~closing.dcp
    /\ closing' = [closing EXCEPT !.dcp = TRUE]
    /\ UNCHANGED closeLast
    /\ UNCHANGED besidesCloseVars

\* the engine takes or gives back a reference to the connection (d = 0)
\* or to cookie d
ChangeRefcount(d, by) ==
    /\ closing.state # "immediate_close"
    /\ IF d = 0
       THEN /\ closing.refcount + by \in 0 .. MaxRefcount
            /\ closing' = [closing EXCEPT !.refcount = @ + by]
       ELSE /\ closing.cookies[d].present
            /\ closing.cookies[d].refcount + by \in 0 .. MaxRefcount
            /\ closing' = [closing EXCEPT !.cookies[d].refcount = @ + by]
    /\ UNCHANGED closeLast
    /\ UNCHANGED besidesCloseVars

\* a cookie takes a request to the engine, which blocks, or is notified
SetEwouldblock(i, ewouldblock) ==
    /\ closing.state # "immediate_close"
    /\ closing.cookies[i].present
    /\ closing.cookies[i].ewouldblock # ewouldblock
    /\ ewouldblock => closing.state = "running"
    /\ closing' = [closing EXCEPT
                     !.cookies[i].ewouldblock = ewouldblock,
                     !.cookies[i].request = TRUE]
    /\ UNCHANGED closeLast
    /\ UNCHANGED besidesCloseVars

\* a connection as its constructor makes it, with one cookie
InitClose ==
    /\ closing = [state |-> "running", refcount |-> 1, dcp |-> FALSE,
                  registered_in_libevent |-> TRUE,
                  cookies |-> [i \in CloseCookieIds |->
                                  IF i = 1 THEN NewCookie ELSE NullCookie]]
    /\ closeLast = NoClose

\* no thread is in a call
InitLocks ==
    /\ lockScript = [t \in LockThreads |-> <<>>]
    /\ locksHeld = [t \in LockThreads |-> <<>>]

\* the components modelled on their own, as constructed
InitMore ==
    /\ InitLocks
    /\ InitExpiry
    /\ InitPager
    /\ deletionLast = NoDeletion
    /\ InitMock
    /\ InitVisit
    /\ InitClose
    /\ vbStateCount = [s \in VBStates |->
                          IF vbMap # NoVB /\ vbState[vbMap] = s THEN 1 ELSE 0]

\* no function has been called
InitCall ==
    /\ setStateMeta = [topology |-> JArray(<<JArray(<<JString>>)>>)]
    /\ metaResult = NotValidated
    /\ xerror_support = FALSE
    /\ collectionsSupported = FALSE
    /\ remapLast = NoRemap
    /\ iov = <<>>
    /\ mutationLast = NoMutation
    /\ streamReqLog = <<>>
    /\ InitMore

\* ------------------------------------------------------------------------
\* RollbackResult, when doRollback was not called
NoRollbackResult == [success |-> FALSE, highSeqno |-> 0]

\* an updater that is not in Manager::update, and the result of its last call.
\* Of a call: the statement it is at, the manifest it brings, whether it came
\* through KVBucket::setCollections and holds vbsetMutex, and the manifest
\* that was current when it was made
IdleUpdate(res) ==
    [pc |-> "idle", manifest |-> "none", lh |-> FALSE, before |-> "none",
     res |-> res]

\* a thread that executes nothing.  Of an operation: its kind, the statement
\* it is at, the object it got from the map, the result it returned with and
\* (history) whether the object has been active or pending since it got it
IdleOp == [kind |-> "none", pc |-> "idle", vb |-> NoVB, res |-> "none",
           live |-> FALSE]

\* a bucket is constructed with an empty vbMap
InitKV ==
    /\ vbMap = NoVB
    /\ vbState = [o \in VBObjects |-> "none"]
    /\ pendingOps = [o \in VBObjects |-> {}]
    /\ takeoverBackedUp = [o \in VBObjects |-> FALSE]
    /\ notifyTasks = {}
    /\ op = [t \in Threads |-> IdleOp]
    /\ failovers = [o \in VBObjects |-> <<>>]
    /\ uuidsMinted = 0
    /\ dcpStreams = {}
    /\ cursors = [o \in VBObjects |-> {}]
    /\ vbHighSeqno = [o \in VBObjects |-> 0]
    /\ rollbackLast = [rollbackSeqno |-> 0, result |-> NoRollbackResult,
                       res |-> "none", how |-> "none", found |-> {},
                       lockGot |-> FALSE, call |-> 0]
    /\ current = NoManifest
    /\ vbManifest = [o \in VBObjects |-> "none"]
    /\ upd = [u \in Updaters |-> IdleUpdate("none")]
    /\ collFailed = FALSE
    /\ bgFetches = <<>>
    /\ fetchedItems = <<>>
    /\ ioComplete = [c \in Cookies |-> <<>>]
    /\ nFetches = 0
    /\ bgLast = [items |-> <<>>, vb |-> NoVB, status |-> <<>>,
                 before |-> [c \in Cookies |-> <<>>]]

\* ReaderLockHolder rlh(vb->getStateLock()): the threads that hold the state
\* lock of object o in read mode
Readers(o) == {t \in Threads : op[t].vb = o /\ op[t].pc = "locked"}

\* the inputs of an operation: the cas of the item is acceptable, the
\* collection of the key is known, the options of a get, the states a
\* with-meta operation is permitted in
OpInputs ==
    [casOk : BOOLEAN, collValid : BOOLEAN, honorStates : BOOLEAN,
     allowedState : {vbucket_state_active, vbucket_state_replica},
     permittedVBStates : {{vbucket_state_active},
                          {vbucket_state_active, vbucket_state_replica,
                           vbucket_state_pending}}]

\* VBucket::addPendingOp returns true, and has queued the cookie, when the
\* state of the partition is pending
AddPendingOp(st) == st = vbucket_state_pending

\* the check of the partition state at the head of an operation, made with
\* state st read from the object: "NotMyVBucket", "TempFail", "addPendingOp"
\* (the operation goes on to call addPendingOp), "skip" or "pass"
StateCheck(kind, st, backedUp, in) ==
    CASE kind = "set" ->
            IF st = vbucket_state_dead THEN "NotMyVBucket"
            ELSE IF st = vbucket_state_replica THEN "NotMyVBucket"
            ELSE IF st = vbucket_state_pending THEN "addPendingOp"
            ELSE IF backedUp THEN "TempFail"
            ELSE "pass"
      [] kind = "add" ->
            IF st = vbucket_state_dead \/ st = vbucket_state_replica
            THEN "NotMyVBucket"
            ELSE IF st = vbucket_state_pending THEN "addPendingOp"
            ELSE IF backedUp THEN "TempFail"
            ELSE "pass"
      [] kind = "replace" ->
            IF st = vbucket_state_dead \/ st = vbucket_state_replica
            THEN "NotMyVBucket"
            ELSE IF st = vbucket_state_pending THEN "addPendingOp"
            ELSE "pass"
      [] kind = "getAndUpdateTtl" ->
            IF st = vbucket_state_dead THEN "NotMyVBucket"
            ELSE IF st = vbucket_state_replica THEN "NotMyVBucket"
            ELSE IF st = vbucket_state_pending THEN "addPendingOp"
            ELSE "pass"
      [] kind = "get" ->
            LET disallowedState ==
                    IF in.allowedState = vbucket_state_active
                    THEN vbucket_state_replica ELSE vbucket_state_active
            IN IF ~in.honorStates THEN "pass"
               ELSE IF st = vbucket_state_dead THEN "NotMyVBucket"
               ELSE IF st = disallowedState THEN "NotMyVBucket"
               ELSE IF st = vbucket_state_pending THEN "addPendingOp"
               ELSE "pass"
      [] kind \in {"setWithMeta", "deleteWithMeta"} ->
            IF st \notin in.permittedVBStates
            THEN IF st = vbucket_state_pending THEN "addPendingOp"
                 ELSE "NotMyVBucket"
            ELSE IF backedUp THEN "TempFail"
            ELSE "pass"
      [] kind = "deleteExpiredItem" ->
            IF st = vbucket_state_active THEN "pass" ELSE "skip"

\* the checks between the state check and the call of the VBucket: the cas
\* of the item and the collection of the key; "admit" when they pass
ItemChecks(kind, in) ==
    IF kind = "deleteExpiredItem" THEN "admit"
    ELSE IF kind = "add" /\ ~in.casOk THEN "NotStored"
    ELSE IF kind \in {"setWithMeta", "deleteWithMeta"} /\ ~in.casOk
    THEN "KeyExists"
    ELSE IF ~in.collValid THEN "UnknownCollection"
    ELSE "admit"

\* the outcome of an operation up to the call of the VBucket
Admission(kind, st, backedUp, in) ==
    LET chk == StateCheck(kind, st, backedUp, in)
    IN IF chk = "addPendingOp"
       THEN IF AddPendingOp(st) THEN "WouldBlock" ELSE ItemChecks(kind, in)
       ELSE IF chk = "pass" THEN ItemChecks(kind, in)
       ELSE chk

\* the thread returns from its operation with result res
Return(res) == [IdleOp EXCEPT !.res = res]

\* VBucketPtr vb = getVBucket(vbid): the first statement of every operation
GetVBucket(t, kind) ==
    /\ op[t].pc = "idle"
    /\ \A o \in VBObjects : t \notin pendingOps[o]
    /\ op' = [op EXCEPT ![t] =
                IF vbMap = NoVB
                THEN Return(IF t = Pager THEN "none" ELSE "NotMyVBucket")
                ELSE [IdleOp EXCEPT !.kind = kind, !.pc = "got",
                                    !.vb = vbMap,
                                    !.live = vbState[vbMap] \in
                                                {vbucket_state_active,
                                                 vbucket_state_pending}]]
    /\ UNCHANGED <<dmVars, admVars, vbMap, vbState, pendingOps, takeoverBackedUp,
                   notifyTasks>>

\* KVBucket::set, add, replace, getInternal, getAndUpdateTtl, setWithMeta,
\* deleteWithMeta and deleteExpiredItem from the ReaderLockHolder to the call
\* of the VBucket: the state lock is taken in read mode and is kept if the
\* operation is admitted
LockAndCheck(t, in) ==
    /\ op[t].pc = "got"
    /\ op[t].kind \in LockedOps \cup {"deleteExpiredItem"}
    /\ LET o == op[t].vb
           st == vbState[o]
           outcome == Admission(op[t].kind, st, takeoverBackedUp[o], in)
       IN /\ pendingOps' = IF outcome = "WouldBlock"
                           THEN [pendingOps EXCEPT ![o] = @ \cup {t}]
                           ELSE pendingOps
          /\ op' = [op EXCEPT ![t] =
                      IF outcome = "admit"
                      THEN [op[t] EXCEPT !.pc = "locked"]
                      ELSE Return(IF outcome = "skip" THEN "none"
                                  ELSE outcome)]
    /\ UNCHANGED <<dmVars, admVars, vbMap, vbState, takeoverBackedUp,
                   notifyTasks>>

\* the call of the VBucket (vb->set, vb->add, ..., vb->deleteExpiredItem): the
\* hash table of the object is changed (read, for a get) and the item is
\* queued; the state lock is released on return
Apply(t) ==
    /\ op[t].pc = "locked"
    /\ op' = [op EXCEPT ![t] = Return("Success")]
    /\ UNCHANGED <<dmVars, admVars, vbMap, vbState, pendingOps, takeoverBackedUp,
                   notifyTasks>>

\* KVBucket::deleteItem takes no lock; every vb->getState() is a read of its
\* own.  First read: vb->getState() == vbucket_state_dead
DeleteItemReadDead(t) ==
    /\ op[t].pc = "got"
    /\ op[t].kind = "deleteItem"
    /\ LET st == vbState[op[t].vb]
       IN op' = [op EXCEPT ![t] =
                   IF st = vbucket_state_dead THEN Return("NotMyVBucket")
                   ELSE [op[t] EXCEPT !.pc = "notDead"]]
    /\ UNCHANGED <<dmVars, admVars, vbMap, vbState, pendingOps, takeoverBackedUp,
                   notifyTasks>>

\* second read: vb->getState() == vbucket_state_replica
DeleteItemReadReplica(t) ==
    /\ op[t].pc = "notDead"
    /\ LET st == vbState[op[t].vb]
       IN op' = [op EXCEPT ![t] =
                   IF st = vbucket_state_replica
                   THEN Return("NotMyVBucket")
                   ELSE [op[t] EXCEPT !.pc = "notReplica"]]
    /\ UNCHANGED <<dmVars, admVars, vbMap, vbState, pendingOps, takeoverBackedUp,
                   notifyTasks>>

\* third read: vb->getState() == vbucket_state_pending
DeleteItemReadPending(t) ==
    /\ op[t].pc = "notReplica"
    /\ LET st == vbState[op[t].vb]
       IN op' = [op EXCEPT ![t] =
                   [op[t] EXCEPT !.pc = IF st = vbucket_state_pending
                                        THEN "sawPending" ELSE "notPending"]]
    /\ UNCHANGED <<dmVars, admVars, vbMap, vbState, pendingOps, takeoverBackedUp,
                   notifyTasks>>

\* vb->addPendingOp(cookie) of deleteItem: when it returns false the operation
\* goes on with the collection of the key
DeleteItemAddPendingOp(t) ==
    /\ op[t].pc = "sawPending"
    /\ LET o == op[t].vb
       IN IF AddPendingOp(vbState[o])
          THEN /\ pendingOps' = [pendingOps EXCEPT ![o] = @ \cup {t}]
               /\ op' = [op EXCEPT ![t] = Return("WouldBlock")]
          ELSE /\ pendingOps' = pendingOps
               /\ op' = [op EXCEPT ![t].pc = "admitted"]
    /\ UNCHANGED <<dmVars, admVars, vbMap, vbState, takeoverBackedUp,
                   notifyTasks>>

\* vb->isTakeoverBackedUp() of deleteItem
DeleteItemTakeover(t) ==
    /\ op[t].pc = "notPending"
    /\ op' = [op EXCEPT ![t] =
                IF takeoverBackedUp[op[t].vb]
                THEN Return("TempFail")
                ELSE [op[t] EXCEPT !.pc = "admitted"]]
    /\ UNCHANGED <<dmVars, admVars, vbMap, vbState, pendingOps, takeoverBackedUp,
                   notifyTasks>>

\* the collection of the key and vb->deleteItem
DeleteItemApply(t, in) ==
    /\ op[t].pc = "admitted"
    /\ op' = [op EXCEPT ![t] =
                IF ItemChecks("deleteItem", in) # "admit"
                THEN Return(ItemChecks("deleteItem", in))
                ELSE Return("Success")]
    /\ UNCHANGED <<dmVars, admVars, vbMap, vbState, pendingOps, takeoverBackedUp,
                   notifyTasks>>

\* FailoverTable::createEntry: an entry of a new UUID is put in front
CreateEntry(ft, uuid, seqno) ==
    <<[vb_uuid |-> uuid, by_seqno |-> seqno]>> \o ft

\* FailoverTable::getLatestEntry
GetLatestEntry(ft) == Head(ft)

\* the entries a rollback to seqno leaves in the table
PruneEntries(ft, seqno) == SelectSeq(ft, LAMBDA e : e.by_seqno <= seqno)

\* vb->getPersistedSnapshot() and vb->getPersistenceSeqno() as a state change
\* to active without transfer finds them (no other state change reads them):
\* the flusher has persisted up to persistenceSeqno of a snapshot
\* [start, end] of the items queued
NothingPersisted == [start |-> 0, end |-> 0, persistenceSeqno |-> 0]

PersistedSnapshots(to, transfer) ==
    LET hs == IF vbMap = NoVB THEN 0 ELSE vbHighSeqno[vbMap]
    IN IF to = vbucket_state_active /\ transfer = "No"
       THEN {p \in [start : 0..hs, end : 0..hs, persistenceSeqno : 0..hs] :
               /\ p.start <= p.persistenceSeqno
               /\ p.persistenceSeqno <= p.end}
       ELSE {NothingPersisted}

\* vbMap.dropVBucketAndSetupDeferredDeletion: the object leaves the map and
\* is destroyed by its last holder; what it held is no longer looked at
DropVBucketAndSetupDeferredDeletion(f, o, nothing) ==
    IF o = NoVB THEN f ELSE [f EXCEPT ![o] = nothing]

\* DcpConnMap::vbucketStateChanged: the streams of the partition end with
\* state_changed
VbucketStateChanged(streams) == {}

\* DcpConnMap::closeStreamsDueToRollback
CloseStreamsDueToRollback(streams) == {}

\* vbsetMutex is free: no call of KVBucket::setCollections is under way (every
\* other holder takes and releases it within its step)
VbsetMutexFree == \A u \in Updaters : ~upd[u].lh

\* the updaters that hold Manager::lock
ManagerLockHolders ==
    {u \in Updaters : upd[u].pc \in {"updateAllVBuckets", "commit",
                                      "rollback", "crashed"}}

\* VBucket::updateFromManifest: the manifest of the partition when it accepts
\* the manifest, and when it rejects it
UpdateFromManifest(old, manifest, accepts) ==
    IF accepts THEN manifest ELSE old

\* Collections::Manager::update(VBucket&): the partition is updated from the
\* current manifest, when there is one; what updateFromManifest returns is
\* not looked at
UpdateVB(old, accepts) ==
    IF current # NoManifest THEN UpdateFromManifest(old, current, accepts)
    ELSE old

\* VBucketMap::incVBStateCount, VBucketMap::decVBStateCount
IncVBStateCount(count, state) == [count EXCEPT ![state] = @ + 1]

DecVBStateCount(count, state) == [count EXCEPT ![state] = @ - 1]

\* VBucketMap::setState: the counter of the old state is decremented, the
\* one of the new state incremented
SetStateCount(count, oldstate, to) ==
    IncVBStateCount(DecVBStateCount(count, oldstate), to)

\* makeVBucket and vbMap.addBucket: a new object in state to is put in the
\* map, with a failover table of one entry and nothing queued; it is given
\* the cursors moved.  addBucket increments the counter of its state
NewVBucket(to, moved, accepts) ==
    /\ \E o \in VBObjects : vbState[o] = "none"
    /\ to = vbucket_state_active => ManagerLockHolders = {}
    /\ uuidsMinted < MaxUuids
    /\ LET o == CHOOSE o \in VBObjects : vbState[o] = "none"
       IN /\ vbState' = [vbState EXCEPT ![o] = to]
          /\ vbMap' = o
          /\ vbStateCount' = IncVBStateCount(vbStateCount, to)
          /\ failovers' =
                [DropVBucketAndSetupDeferredDeletion(failovers, vbMap, <<>>)
                    EXCEPT ![o] = CreateEntry(<<>>, uuidsMinted + 1, 0)]
          /\ uuidsMinted' = uuidsMinted + 1
          /\ vbHighSeqno' =
                [DropVBucketAndSetupDeferredDeletion(vbHighSeqno, vbMap, 0)
                    EXCEPT ![o] = 0]
          /\ cursors' = [c \in VBObjects |->
                            IF c = o THEN moved
                            ELSE IF c = vbMap THEN {}
                            ELSE cursors[c]]
          /\ vbManifest' =
                [DropVBucketAndSetupDeferredDeletion(vbManifest, vbMap, "none")
                    EXCEPT ![o] = IF to = vbucket_state_active
                                  THEN UpdateVB("none", accepts)
                                  ELSE "none"]
          /\ collFailed' = (collFailed \/ (to = vbucket_state_active
                                             /\ current # NoManifest
                                             /\ ~accepts))

\* KVBucket::setVBucketState (setVBucketState_UNLOCKED under vbsetMutex).
\* VBucket::setState takes the state lock in write mode: it waits for the
\* readers to leave.  accepts: the partition accepts the manifest it is
\* updated from.
SetVBucketState(to, meta, transfer, persisted, accepts) ==
    /\ VbsetMutexFree
    /\ IF vbMap # NoVB /\ to = vbState[vbMap] /\ meta = "empty"
       THEN UNCHANGED <<vbMap, vbState, notifyTasks, op, failovers,
                        uuidsMinted, dcpStreams, cursors, vbHighSeqno,
                        vbManifest, collFailed, vbStateCount>>
       ELSE IF vbMap # NoVB
       THEN LET oldstate == vbState[vbMap]
                newEntry == to = vbucket_state_active /\ transfer = "No"
                updated == to = vbucket_state_active
                              /\ oldstate = vbucket_state_replica
                entrySeqno == IF persisted.end = persisted.persistenceSeqno
                              THEN persisted.end
                              ELSE persisted.start
            IN /\ Readers(vbMap) = {}
               /\ newEntry => uuidsMinted < MaxUuids
               /\ updated => ManagerLockHolders = {}
               /\ vbManifest' =
                     IF updated
                     THEN [vbManifest EXCEPT ![vbMap] = UpdateVB(@, accepts)]
                     ELSE vbManifest
               /\ collFailed' = (collFailed \/ (updated
                                                  /\ current # NoManifest
                                                  /\ ~accepts))
               /\ vbState' = [vbState EXCEPT ![vbMap] = to]
               /\ vbStateCount' = SetStateCount(vbStateCount, oldstate, to)
               /\ dcpStreams' = IF oldstate # to
                                THEN VbucketStateChanged(dcpStreams)
                                ELSE dcpStreams
               /\ failovers' =
                     IF newEntry
                     THEN [failovers EXCEPT
                             ![vbMap] = CreateEntry(@, uuidsMinted + 1,
                                                    entrySeqno)]
                     ELSE failovers
               /\ uuidsMinted' = IF newEntry THEN uuidsMinted + 1
                                 ELSE uuidsMinted
               /\ notifyTasks' =
                     IF oldstate = vbucket_state_pending
                            /\ to = vbucket_state_active
                     THEN notifyTasks \cup {vbMap}
                     ELSE notifyTasks
               /\ op' = [t \in Threads |->
                            IF op[t].vb = vbMap
                                  /\ to \in {vbucket_state_active,
                                             vbucket_state_pending}
                            THEN [op[t] EXCEPT !.live = TRUE]
                            ELSE op[t]]
               /\ UNCHANGED <<vbMap, cursors, vbHighSeqno>>
       ELSE /\ NewVBucket(to, {}, accepts)
            /\ UNCHANGED <<notifyTasks, op, dcpStreams>>
    /\ UNCHANGED <<dmVars, callVars, connVars, dcpVars, laterVars, bgVars,
                   pendingOps, takeoverBackedUp, rollbackLast, current, upd>>

\* KVBucket::deleteVBucket: the counter of the state of the object is
\* decremented, the object is set dead (VBucket::setState) and dropped from
\* the map
DeleteVBucket ==
    /\ VbsetMutexFree
    /\ IF vbMap = NoVB
       THEN UNCHANGED <<vbMap, vbState, dcpStreams, failovers, cursors,
                        vbHighSeqno, vbManifest, vbStateCount>>
       ELSE /\ Readers(vbMap) = {}
            /\ vbStateCount' = DecVBStateCount(vbStateCount, vbState[vbMap])
            /\ vbState' = [vbState EXCEPT ![vbMap] = vbucket_state_dead]
            /\ dcpStreams' = VbucketStateChanged(dcpStreams)
            /\ vbMap' = NoVB
            /\ failovers' =
                  DropVBucketAndSetupDeferredDeletion(failovers, vbMap, <<>>)
            /\ cursors' =
                  DropVBucketAndSetupDeferredDeletion(cursors, vbMap, {})
            /\ vbHighSeqno' =
                  DropVBucketAndSetupDeferredDeletion(vbHighSeqno, vbMap, 0)
            /\ vbManifest' =
                  DropVBucketAndSetupDeferredDeletion(vbManifest, vbMap,
                                                      "none")
    /\ UNCHANGED <<dmVars, callVars, connVars, dcpVars, laterVars, bgVars,
                   pendingOps, takeoverBackedUp, notifyTasks,
                   op, uuidsMinted, rollbackLast, current, upd, collFailed>>

\* the cursors of the old object are not taken over
ResetVBucket_CursorsLost ==
    NewVBucket(vbState[vbMap], {}, TRUE)

\* KVBucket::resetVBucket_UNLOCKED: the object is dropped from the map, a
\* new one is made in the same state (setVBucketState_UNLOCKED finds none in
\* the map) and takes the cursors of the old one.  The partition reset is
\* replica or pending: the new object is not updated from a manifest
ResetVBucket ==
    NewVBucket(vbState[vbMap], cursors[vbMap], TRUE)

\* the outcomes of doRollback, which is called for a replica or pending
\* partition and a rollbackSeqno other than 0: the KVStore fails, or rewinds
\* to a snapshot of high seqno at most prevHighSeqno
RollbackResults(rollbackSeqno, ownsLock) ==
    IF /\ ownsLock
       /\ rollbackSeqno # 0
       /\ vbMap # NoVB
       /\ vbState[vbMap] \in {vbucket_state_replica, vbucket_state_pending}
    THEN {NoRollbackResult}
            \cup [success : {TRUE}, highSeqno : 0..vbHighSeqno[vbMap]]
    ELSE {NoRollbackResult}

\* KVBucket::rollback, the KVStore has rewound the partition to
\* result.highSeqno: rollbackUnpersistedItems, postProcessRollback,
\* closeStreamsDueToRollback
RollbackByKVStore(result) ==
    /\ vbHighSeqno' = [vbHighSeqno EXCEPT ![vbMap] = result.highSeqno]
    /\ failovers' = [failovers EXCEPT
                       ![vbMap] = PruneEntries(@, result.highSeqno)]
    /\ dcpStreams' = CloseStreamsDueToRollback(dcpStreams)
    /\ UNCHANGED <<vbMap, vbState, uuidsMinted, cursors, vbManifest,
                   collFailed, vbStateCount>>

\* the streams are left open when the partition is reset
RollbackByReset_StreamsLeft ==
    /\ ResetVBucket
    /\ UNCHANGED dcpStreams

\* KVBucket::rollback, the partition is reset: resetVBucket_UNLOCKED,
\* closeStreamsDueToRollback
RollbackByReset ==
    /\ ResetVBucket
    /\ dcpStreams' = CloseStreamsDueToRollback(dcpStreams)

\* a call of KVBucket::rollback and its outcome: how is what it called
\* (doRollback; doRollback, reset; reset), result what doRollback returned,
\* lockGot whether its try_to_lock got the lock of the partition,
\* found the streams that were open at the call, call the parity of the
\* number of calls
RollbackOutcome(rollbackSeqno, ownsLock, result, res, how) ==
    [rollbackSeqno |-> rollbackSeqno, result |-> result, res |-> res,
     how |-> how, found |-> dcpStreams, lockGot |-> ownsLock,
     call |-> 1 - rollbackLast.call]

\* a dead partition is rolled back like a replica
RollbackAdmission_DeadRolledBack(ownsLock) ==
    IF ~ownsLock THEN "Reschedule"
    ELSE IF vbMap = NoVB THEN "Abort"
    ELSE IF vbState[vbMap] \in {vbucket_state_replica, vbucket_state_pending,
                                vbucket_state_dead}
    THEN "rollback"
    ELSE "Abort"

\* KVBucket::rollback up to the rollback itself: Reschedule when the lock of
\* the partition is not got, Abort when there is no partition or it is
\* neither replica nor pending
RollbackAdmission(ownsLock) ==
    IF ~ownsLock THEN "Reschedule"
    ELSE IF vbMap = NoVB THEN "Abort"
    ELSE IF vbState[vbMap] \in {vbucket_state_replica, vbucket_state_pending}
    THEN "rollback"
    ELSE "Abort"

\* KVBucket::rollback.  ownsLock: the try_to_lock of the partition's lock
\* got it.  Of a replica or pending partition: to rollbackSeqno when the
\* KVStore can (result of doRollback), else by resetting the partition; in
\* any other state the rollback is aborted
Rollback(rollbackSeqno, ownsLock, result) ==
    /\ VbsetMutexFree
    /\ IF RollbackAdmission(ownsLock) # "rollback"
       THEN /\ rollbackLast' =
                  RollbackOutcome(rollbackSeqno, ownsLock, result,
                                  RollbackAdmission(ownsLock), "none")
            /\ UNCHANGED <<vbMap, vbState, failovers, uuidsMinted,
                           dcpStreams, cursors, vbHighSeqno, vbManifest,
                           collFailed, vbStateCount>>
       ELSE IF rollbackSeqno # 0 /\ result.success /\ result.highSeqno > 0
       THEN /\ RollbackByKVStore(result)
            /\ rollbackLast' = RollbackOutcome(rollbackSeqno, ownsLock, result,
                                               "Complete", "doRollback")
       ELSE /\ RollbackByReset
            /\ rollbackLast' =
                  RollbackOutcome(rollbackSeqno, ownsLock, result, "Complete",
                                  IF rollbackSeqno # 0
                                  THEN "doRollback, reset"
                                  ELSE "reset")
    /\ UNCHANGED <<dmVars, callVars, connVars, dcpVars, laterVars, bgVars,
                   pendingOps, takeoverBackedUp, notifyTasks, op,
                   current, upd>>

\* an item is queued into the checkpoint manager of the partition (a client
\* mutation of an active partition, an item of the DCP consumer otherwise)
QueueItem(k) ==
    /\ vbMap # NoVB
    /\ vbState[vbMap] # vbucket_state_dead
    /\ vbHighSeqno[vbMap] < MaxSeqno
    /\ vbHighSeqno' =
          [vbHighSeqno EXCEPT
             ![vbMap] = QueueDirty([highSeqno |-> @, ckpt |-> <<>>,
                                    enqLog |-> <<>>],
                                   "mutation", k).highSeqno]
    /\ UNCHANGED <<dmVars, callVars, connVars, dcpVars, moreVars, bgVars, kvVars, collVars, failovers, uuidsMinted,
                   dcpStreams, cursors, rollbackLast>>

\* a DCP stream of the partition is opened; it registers a cursor
StreamRequest(s) ==
    /\ vbMap # NoVB
    /\ s \notin dcpStreams
    /\ dcpStreams' = dcpStreams \cup {s}
    /\ cursors' = [cursors EXCEPT ![vbMap] = @ \cup {s}]
    /\ UNCHANGED <<dmVars, callVars, connVars, dcpVars, moreVars, bgVars, kvVars, collVars, failovers, uuidsMinted,
                   vbHighSeqno, rollbackLast>>

\* the updater returns from Manager::update with res; vbsetMutex and
\* Manager::lock are released
ReturnFromUpdate(u, res) ==
    /\ upd' = [upd EXCEPT ![u] = IdleUpdate(res)]
    /\ collFailed' = (collFailed \/ res # "success")

\* KVBucket::setCollections: vbsetMutex is taken (state changes are held off
\* while the partitions are updated) and Manager::update is called
SetCollections(u, manifest) ==
    /\ upd[u].pc = "idle"
    /\ VbsetMutexFree
    /\ upd' = [upd EXCEPT ![u] = [pc |-> "update", manifest |-> manifest,
                                  lh |-> TRUE, before |-> "none",
                                  res |-> "none"]]
    /\ UNCHANGED <<dmVars, callVars, connVars, dcpVars, moreVars, bgVars, kvVars, ftVars, current, vbManifest, collFailed>>

\* Collections::Manager::update(KVBucket&, manifest) called on the manager
\* itself, without vbsetMutex
ManagerUpdate(u, manifest) ==
    /\ upd[u].pc = "idle"
    /\ upd' = [upd EXCEPT ![u] = [pc |-> "update", manifest |-> manifest,
                                  lh |-> FALSE, before |-> "none",
                                  res |-> "none"]]
    /\ UNCHANGED <<dmVars, callVars, connVars, dcpVars, moreVars, bgVars, kvVars, ftVars, current, vbManifest, collFailed>>

\* the lock is taken whoever holds it
UpdateTryLock_LockIgnored(u) ==
    /\ upd[u].pc = "update"
    /\ IF upd[u].manifest = InvalidJson
       THEN ReturnFromUpdate(u, "invalid_arguments")
       ELSE /\ upd' = [upd EXCEPT ![u].pc = "updateAllVBuckets",
                                  ![u].before = current]
            /\ UNCHANGED collFailed
    /\ UNCHANGED <<dmVars, callVars, connVars, dcpVars, moreVars, bgVars, kvVars, ftVars, current, vbManifest>>

\* Manager::update: std::try_to_lock of Manager::lock, and the construction
\* of the Manifest
UpdateTryLock(u) ==
    /\ upd[u].pc = "update"
    /\ IF ManagerLockHolders # {}
       THEN ReturnFromUpdate(u, "temporary_failure")
       ELSE IF upd[u].manifest = InvalidJson
       THEN ReturnFromUpdate(u, "invalid_arguments")
       ELSE /\ upd' = [upd EXCEPT ![u].pc = "updateAllVBuckets",
                                  ![u].before = current]
            /\ UNCHANGED collFailed
    /\ UNCHANGED <<dmVars, callVars, connVars, dcpVars, moreVars, bgVars, kvVars, ftVars, current, vbManifest>>

\* Manager::updateAllVBuckets(bucket, *newManifest): the partition, if it is
\* active, is updated from the new manifest; the update goes on to roll back
\* when the partition rejects it
UpdateAllVBuckets(u, accepts) ==
    /\ upd[u].pc = "updateAllVBuckets"
    /\ IF vbMap # NoVB /\ vbState[vbMap] = vbucket_state_active
       THEN /\ vbManifest' =
                  [vbManifest EXCEPT
                     ![vbMap] = UpdateFromManifest(@, upd[u].manifest, accepts)]
            /\ upd' = [upd EXCEPT ![u].pc = IF accepts THEN "commit"
                                            ELSE "rollback"]
            /\ collFailed' = (collFailed \/ ~accepts)
       ELSE /\ upd' = [upd EXCEPT ![u].pc = "commit"]
            /\ UNCHANGED <<vbManifest, collFailed>>
    /\ UNCHANGED <<dmVars, callVars, connVars, dcpVars, moreVars, bgVars, kvVars, ftVars, current>>

\* Manager::update: current = std::move(newManifest), success
UpdateCommit(u) ==
    /\ upd[u].pc = "commit"
    /\ current' = upd[u].manifest
    /\ ReturnFromUpdate(u, "success")
    /\ UNCHANGED <<dmVars, callVars, connVars, dcpVars, moreVars, bgVars, kvVars, ftVars, vbManifest>>

\* what *current may do when current is the null pointer (undefined
\* behaviour): the process crashes, the partition is updated from whatever is
\* read at the address, or nothing is done
UndefinedOutcomes == {"crash", "garbage", "nothing"}

\* Manager::update, a partition rejected the new manifest:
\* updateAllVBuckets(bucket, *current) and cannot_apply_collections_manifest
UpdateRollback(u, accepts, undefined) ==
    /\ upd[u].pc = "rollback"
    /\ LET isActive == vbMap # NoVB /\ vbState[vbMap] = vbucket_state_active
       IN IF current = NoManifest
          THEN CASE undefined = "crash" ->
                      /\ upd' = [upd EXCEPT ![u].pc = "crashed"]
                      /\ collFailed' = TRUE
                      /\ UNCHANGED vbManifest
                 [] undefined = "garbage" ->
                      /\ vbManifest' =
                            IF isActive
                            THEN [vbManifest EXCEPT ![vbMap] = "garbage"]
                            ELSE vbManifest
                      /\ ReturnFromUpdate(u, "cannot_apply")
                 [] undefined = "nothing" ->
                      /\ UNCHANGED vbManifest
                      /\ ReturnFromUpdate(u, "cannot_apply")
          ELSE /\ vbManifest' =
                     IF isActive
                     THEN [vbManifest EXCEPT
                             ![vbMap] = UpdateFromManifest(@, current, accepts)]
                     ELSE vbManifest
               /\ ReturnFromUpdate(u, "cannot_apply")
    /\ UNCHANGED <<dmVars, callVars, connVars, dcpVars, moreVars, bgVars, kvVars, ftVars, current>>

\* Manager::getManifest
GetManifest ==
    IF current # NoManifest THEN <<"success", current>>
    ELSE <<"no_collections_manifest", "none">>

\* the cookies suspended for a background fetch
BGSuspended ==
    {bgFetches[i].cookie : i \in 1..Len(bgFetches)}
        \cup {fetchedItems[i].cookie : i \in 1..Len(fetchedItems)}

\* a get of an active partition misses the hash table: the fetch of the key
\* is queued on the partition and the cookie is suspended (WouldBlock)
GetBGFetch(k, cookie) ==
    /\ nFetches < MaxFetches
    /\ vbMap # NoVB
    /\ vbState[vbMap] = vbucket_state_active
    /\ cookie \notin BGSuspended
    /\ bgFetches' = Append(bgFetches,
                           [key |-> k, cookie |-> cookie, vb |-> vbMap])
    /\ ioComplete' = [ioComplete EXCEPT ![cookie] = <<>>]
    /\ nFetches' = nFetches + 1
    /\ UNCHANGED <<dmVars, callVars, connVars, dcpVars, moreVars, kvVars, ftVars, collVars, fetchedItems, bgLast>>

\* the fetches of sequence q that are queued on object o, and the others
FetchesOf(q, o) == SelectSeq(q, LAMBDA item : item.vb = o)
FetchesNotOf(q, o) == SelectSeq(q, LAMBDA item : item.vb # o)

\* BgFetcher::run: the fetches queued on the partition of the map are taken
\* and read from disk
BgFetcherRun ==
    /\ fetchedItems = <<>>
    /\ vbMap # NoVB
    /\ FetchesOf(bgFetches, vbMap) # <<>>
    /\ fetchedItems' = FetchesOf(bgFetches, vbMap)
    /\ bgFetches' = FetchesNotOf(bgFetches, vbMap)
    /\ UNCHANGED <<dmVars, callVars, connVars, dcpVars, moreVars, kvVars, ftVars, collVars, ioComplete, nFetches,
                   bgLast>>

\* engine.notifyIOComplete(cookie, status)
NotifyIOComplete(io, cookie, status) ==
    [io EXCEPT ![cookie] = Append(@, status)]

\* the loops of completeBGFetchMulti: the cookie of each item of the batch is
\* notified with the status of the item
RECURSIVE NotifyFetched(_, _, _)
NotifyFetched(io, items, status) ==
    IF items = <<>> THEN io
    ELSE NotifyFetched(NotifyIOComplete(io, Head(items).cookie, Head(status)),
                       Tail(items), Tail(status))

\* the statuses of the batch: of completeBGFetchForSingleItem for each item
\* if the partition is in the map, ENGINE_NOT_MY_VBUCKET for each otherwise
FetchedStatuses(items) ==
    IF vbMap # NoVB THEN [1..Len(items) -> BGFetchStatuses]
    ELSE {[i \in 1..Len(items) |-> "NotMyVBucket"]}

\* the cookies of a batch fetched for a deleted partition are not notified
CompleteBGFetchMulti_DeletedSkipped(status) ==
    /\ fetchedItems # <<>>
    /\ ioComplete' = IF vbMap # NoVB
                     THEN NotifyFetched(ioComplete, fetchedItems, status)
                     ELSE ioComplete
    /\ fetchedItems' = <<>>
    /\ bgLast' = [items |-> fetchedItems, vb |-> vbMap, status |-> status,
                  before |-> ioComplete]
    /\ UNCHANGED <<dmVars, callVars, connVars, dcpVars, moreVars, kvVars, ftVars, collVars, bgFetches, nFetches>>

\* KVBucket::completeBGFetchMulti
CompleteBGFetchMulti(status) ==
    /\ fetchedItems # <<>>
    /\ ioComplete' = NotifyFetched(ioComplete, fetchedItems, status)
    /\ fetchedItems' = <<>>
    /\ bgLast' = [items |-> fetchedItems, vb |-> vbMap, status |-> status,
                  before |-> ioComplete]
    /\ UNCHANGED <<dmVars, callVars, connVars, dcpVars, moreVars, kvVars, ftVars, collVars, bgFetches, nFetches>>

\* the takeover stream of the partition falls behind, or catches up
SetTakeoverBackedUpState(to) ==
    /\ vbMap # NoVB
    /\ takeoverBackedUp[vbMap] # to
    /\ takeoverBackedUp' = [takeoverBackedUp EXCEPT ![vbMap] = to]
    /\ UNCHANGED <<dmVars, admVars, vbMap, vbState, pendingOps, notifyTasks, op>>

\* VBucket::fireAllOps: unless the partition is pending, every queued cookie
\* is notified and the queue is emptied
FireAllOps(o) ==
    IF vbState[o] = vbucket_state_pending THEN pendingOps
    ELSE [pendingOps EXCEPT ![o] = {}]

\* PendingOpsNotification::run, of the task scheduled for object o
PendingOpsNotification(o) ==
    /\ o \in notifyTasks
    /\ notifyTasks' = notifyTasks \ {o}
    /\ pendingOps' = FireAllOps(o)
    /\ UNCHANGED <<dmVars, admVars, vbMap, vbState, takeoverBackedUp, op>>

\* the durable sets of SpecDM: key k1 is written by the client of cookie c1,
\* key k2 without a cookie
CookieOf(k) == IF k = "k1" THEN "c1" ELSE NoCookie

NextDM ==
    \/ \E k \in Keys, level \in {"Majority", "PersistToMajority"} :
          SyncWrite(k, level, CookieOf(k))
    \/ \E node \in Nodes, m \in AckSeqnos : \E d \in {0, m, m + 1} :
          SeqnoAckReceived(node, m, d)

InitSpecDM ==
    /\ InitDM
    /\ InitKV
    /\ InitCall

SpecDM == InitSpecDM /\ [][NextDM]_vars

\* ------------------------------------------------------------------------
\* SpecDMSparse: the fixture of DurabilityMonitorTest: chain [active,
\* replica1], SyncWrites added at seqnos with gaps, acks of any seqno up to
\* one beyond the high seqno
\* ------------------------------------------------------------------------
InitDMSparse ==
    /\ InitDM
    /\ chain = <<active, replica1>>
    /\ highSeqno = 0
    /\ InitKV
    /\ InitCall

\* the seqnos a node may acknowledge in SpecDMSparse
SparseAckSeqnos == 0..(highSeqno + 1)

NextDMSparse ==
    \/ \E k \in Keys, step \in 1..MaxSeqnoStep,
          level \in {"Majority", "PersistToMajority"} :
          AddSyncWriteSeqno(k, highSeqno + step, level)
    \/ \E node \in {active, replica1}, m \in SparseAckSeqnos :
          \E d \in {0, m} : SeqnoAckReceived(node, m, d)

SpecDMSparse == InitDMSparse /\ [][NextDMSparse]_vars

\* ------------------------------------------------------------------------
\* SpecChain: chains are registered with the monitor of a partition that
\* tracks nothing
\* ------------------------------------------------------------------------
InitChain ==
    /\ InitDM
    /\ highSeqno = 0
    /\ InitKV
    /\ InitCall

NextChain == \E nodes \in ChainInputs : RegisterReplicationChain(nodes)

SpecChain == InitChain /\ [][NextChain]_vars

\* ------------------------------------------------------------------------
\* SpecTopology: validateSetStateMeta is called with a meta object whose
\* 'topology' is any of TopologyValues
\* ------------------------------------------------------------------------
InitTopology ==
    /\ InitDM
    /\ chain = <<active>>
    /\ highSeqno = 0
    /\ InitKV
    /\ setStateMeta \in MetaInputs
    /\ metaResult = NotValidated
    /\ xerror_support = FALSE
    /\ collectionsSupported = FALSE
    /\ remapLast = NoRemap
    /\ iov = <<>>
    /\ mutationLast = NoMutation
    /\ streamReqLog = <<>>
    /\ InitMore

NextTopology == ValidateSetStateMeta

SpecTopology == InitTopology /\ [][NextTopology]_vars

\* ------------------------------------------------------------------------
\* SpecConn: a connection, whatever features its client negotiated, remaps
\* the error codes of the engine
\* ------------------------------------------------------------------------
InitConn ==
    /\ InitDM
    /\ chain = <<active>>
    /\ highSeqno = 0
    /\ InitKV
    /\ setStateMeta = [topology |-> JArray(<<JArray(<<JString>>)>>)]
    /\ metaResult = NotValidated
    /\ xerror_support \in BOOLEAN
    /\ collectionsSupported \in BOOLEAN
    /\ remapLast = NoRemap
    /\ iov = <<>>
    /\ mutationLast = NoMutation
    /\ streamReqLog = <<>>
    /\ InitMore

NextConn == \E code \in EngineErrorCodes : RemapErrorCode(code)

SpecConn == InitConn /\ [][NextConn]_vars

\* ------------------------------------------------------------------------
\* SpecDcp: DcpMutation packets are queued on a connection, whatever
\* features its client negotiated
\* ------------------------------------------------------------------------
NextDcp ==
    \/ \E sid \in StreamIds, nmeta \in 0..MaxMeta, nbytes \in 0..MaxValueLen,
          infoOk \in BOOLEAN, reserveOk \in BOOLEAN, wbufSize \in WbufSizes :
          DcpMutation(sid, nmeta, nbytes, infoOk, reserveOk, wbufSize)
    \/ AddMsgHdr

SpecDcp == InitConn /\ [][NextDcp]_vars

\* ------------------------------------------------------------------------
\* SpecDcpDeletion: DcpDeletion packets of both versions are queued on a
\* connection, whatever features its client negotiated
\* ------------------------------------------------------------------------
NextDcpDeletion ==
    \/ \E sid \in StreamIds, nmeta \in 0..MaxMeta, nbytes \in 0..MaxValueLen,
          infoOk \in BOOLEAN, reserveOk \in BOOLEAN, roomOk \in BOOLEAN,
          stack \in UninitializedBytes :
          DcpDeletion(sid, nmeta, nbytes, infoOk, reserveOk, roomOk, stack)
    \/ \E sid \in StreamIds, nbytes \in 0..MaxValueLen,
          infoOk \in BOOLEAN, reserveOk \in BOOLEAN, roomOk \in BOOLEAN :
          DcpDeletionV2(sid, nbytes, infoOk, reserveOk, roomOk)
    \/ AddMsgHdr

SpecDcpDeletion == InitConn /\ [][NextDcpDeletion]_vars

\* ------------------------------------------------------------------------
\* SpecStreamReq: a replica that has received the items up to its high seqno
\* from the active of UUID_A is promoted, and a consumer requests a stream
\* of it
\* ------------------------------------------------------------------------
InitStreamReq ==
    /\ InitDM
    /\ chain = <<active>>
    /\ highSeqno = 0
    /\ vbMap = "vb1"
    /\ vbState = [o \in VBObjects |->
                    IF o = "vb1" THEN vbucket_state_replica ELSE "none"]
    /\ pendingOps = [o \in VBObjects |-> {}]
    /\ takeoverBackedUp = [o \in VBObjects |-> FALSE]
    /\ notifyTasks = {}
    /\ op = [t \in Threads |-> IdleOp]
    /\ failovers = [o \in VBObjects |->
                      IF o = "vb1"
                      THEN <<[vb_uuid |-> UUID_A, by_seqno |-> 0]>> ELSE <<>>]
    /\ uuidsMinted = 1
    /\ dcpStreams = {}
    /\ cursors = [o \in VBObjects |-> {}]
    /\ vbHighSeqno \in {[o \in VBObjects |-> IF o = "vb1" THEN hs ELSE 0] :
                           hs \in InitHighSeqnos}
    /\ rollbackLast = [rollbackSeqno |-> 0, result |-> NoRollbackResult,
                       res |-> "none", how |-> "none", found |-> {},
                       lockGot |-> FALSE, call |-> 0]
    /\ current = NoManifest
    /\ vbManifest = [o \in VBObjects |-> "none"]
    /\ upd = [u \in Updaters |-> IdleUpdate("none")]
    /\ collFailed = FALSE
    /\ bgFetches = <<>>
    /\ fetchedItems = <<>>
    /\ ioComplete = [c \in Cookies |-> <<>>]
    /\ nFetches = 0
    /\ bgLast = [items |-> <<>>, vb |-> NoVB, status |-> <<>>,
                 before |-> [c \in Cookies |-> <<>>]]
    /\ InitCall

NextStreamReq ==
    \/ \E persisted \in PersistedSnapshots(vbucket_state_active, "No") :
          SetVBucketState(vbucket_state_active, "empty", "No", persisted, TRUE)
    \/ \E s \in Streams, uuid \in ConsumerUuids,
          start_seqno \in 0..MaxStartSeqno : StreamReq(s, uuid, start_seqno)

SpecStreamReq == InitStreamReq /\ [][NextStreamReq]_vars

\* ------------------------------------------------------------------------
\* SpecCkpt: every kind of item queued into the checkpoint of an active
\* partition with chain [active, replica1]
\* ------------------------------------------------------------------------
InitCkpt ==
    /\ InitDM
    /\ chain = <<active, replica1>>
    /\ InitKV
    /\ InitCall

NextCkpt ==
    \/ \E k \in Keys : SyncWrite(k, "Majority", NoCookie)
    \/ \E k \in Keys : Mutation(k)
    \/ \E k \in Keys : Deletion(k)
    \/ \E k \in Keys : Expiration(k)
    \/ QueueSetVBState
    \/ \E m \in AckSeqnos : SeqnoAckReceived(replica1, m, 0)

SpecCkpt == InitCkpt /\ [][NextCkpt]_vars

\* ------------------------------------------------------------------------
\* SpecKV: a client connection and the expiry pager operate on the partition
\* while its state is changed
\* ------------------------------------------------------------------------
NextKV ==
    \/ \E kind \in ClientOps : GetVBucket(KVCookie, kind)
    \/ GetVBucket(Pager, "deleteExpiredItem")
    \/ \E t \in Threads, in \in OpInputs : LockAndCheck(t, in)
    \/ \E t \in Threads : Apply(t)
    \/ DeleteItemReadDead(KVCookie)
    \/ DeleteItemReadReplica(KVCookie)
    \/ DeleteItemReadPending(KVCookie)
    \/ DeleteItemAddPendingOp(KVCookie)
    \/ DeleteItemTakeover(KVCookie)
    \/ \E in \in OpInputs : DeleteItemApply(KVCookie, in)
    \/ \E to \in VBStates, meta \in {"empty", "topology"} :
          SetVBucketState(to, meta, "Yes", NothingPersisted, TRUE)
    \/ DeleteVBucket
    \/ \E to \in BOOLEAN : SetTakeoverBackedUpState(to)
    \/ \E o \in VBObjects : PendingOpsNotification(o)

\* the DurabilityMonitor and the checkpoint of the partition stay as
\* constructed
InitSpecKV ==
    /\ InitDM
    /\ chain = <<active>>
    /\ highSeqno = 0
    /\ InitKV
    /\ InitCall

SpecKV == InitSpecKV /\ [][NextKV]_vars

\* SpecKVFair: the executor pool runs a task that is scheduled
SpecKVFair ==
    /\ SpecKV
    /\ WF_vars(\E o \in VBObjects : PendingOpsNotification(o))


\* ------------------------------------------------------------------------
\* SpecFailover: the partition is created, promoted, demoted, deleted and
\* rolled back while items are queued and DCP streams are opened
\* ------------------------------------------------------------------------
NextFailover ==
    \/ \E to \in VBStates, meta \in {"empty", "topology"},
          transfer \in TransferVB :
          \E persisted \in PersistedSnapshots(to, transfer) :
             SetVBucketState(to, meta, transfer, persisted, TRUE)
    \/ DeleteVBucket
    \/ \E rollbackSeqno \in {0, MaxSeqno}, ownsLock \in BOOLEAN :
          \E result \in RollbackResults(rollbackSeqno, ownsLock) :
             Rollback(rollbackSeqno, ownsLock, result)
    \/ QueueItem("k1")
    \/ \E s \in Streams : StreamRequest(s)

SpecFailover == InitSpecKV /\ [][NextFailover]_vars


\* ------------------------------------------------------------------------
\* SpecBGFetch: gets of the partition are suspended for background fetches
\* and resumed by the BgFetcher while the partition is created, changes
\* state and is deleted
\* ------------------------------------------------------------------------
NextBGFetch ==
    \/ \E to \in VBStates :
          SetVBucketState(to, "empty", "Yes", NothingPersisted, TRUE)
    \/ DeleteVBucket
    \/ \E k \in Keys, cookie \in Cookies : GetBGFetch(k, cookie)
    \/ BgFetcherRun
    \/ \E status \in FetchedStatuses(fetchedItems) :
          CompleteBGFetchMulti(status)

SpecBGFetch == InitSpecKV /\ [][NextBGFetch]_vars


\* ------------------------------------------------------------------------
\* SpecColl: the manifest is updated through KVBucket::setCollections while
\* the partition is created, changes state and is deleted.
\* SpecCollManager: Manager::update is also called on the manager itself.
\* ------------------------------------------------------------------------
NextColl ==
    \/ \E u \in Updaters, manifest \in Manifests \cup {InvalidJson} :
          SetCollections(u, manifest)
    \/ \E u \in Updaters : UpdateTryLock(u)
    \/ \E u \in Updaters, accepts \in BOOLEAN : UpdateAllVBuckets(u, accepts)
    \/ \E u \in Updaters : UpdateCommit(u)
    \/ \E u \in Updaters, accepts \in BOOLEAN,
          undefined \in UndefinedOutcomes :
          UpdateRollback(u, accepts, undefined)
    \/ \E to \in VBStates, meta \in {"empty", "topology"},
          accepts \in BOOLEAN :
          SetVBucketState(to, meta, "Yes", NothingPersisted, accepts)
    \/ DeleteVBucket

SpecColl == InitSpecKV /\ [][NextColl]_vars

NextCollManager ==
    \/ NextColl
    \/ \E u \in Updaters, manifest \in Manifests \cup {InvalidJson} :
          ManagerUpdate(u, manifest)

SpecCollManager == InitSpecKV /\ [][NextCollManager]_vars

\* KVBucket::resetVBucket of the partition of the map (when there is none
\* nothing is done)
ResetVBucketCall ==
    /\ VbsetMutexFree
    /\ IF vbMap = NoVB
       THEN UNCHANGED <<vbMap, vbState, failovers, uuidsMinted, cursors,
                        vbHighSeqno, vbManifest, collFailed, vbStateCount>>
       ELSE /\ Readers(vbMap) = {}
            /\ ResetVBucket
    /\ UNCHANGED <<dmVars, callVars, connVars, dcpVars, laterVars, bgVars,
                   pendingOps, takeoverBackedUp, notifyTasks, op,
                   dcpStreams, rollbackLast, current, upd>>

\* ------------------------------------------------------------------------
\* SpecVBMap: partitions are created, change state, are deleted, reset and
\* rolled back
\* ------------------------------------------------------------------------
NextVBMap ==
    \/ \E to \in VBStates, meta \in {"empty", "topology"},
          transfer \in TransferVB :
          \E persisted \in PersistedSnapshots(to, transfer) :
             SetVBucketState(to, meta, transfer, persisted, TRUE)
    \/ DeleteVBucket
    \/ ResetVBucketCall
    \/ \E rollbackSeqno \in {0, MaxSeqno}, ownsLock \in BOOLEAN :
          \E result \in RollbackResults(rollbackSeqno, ownsLock) :
             Rollback(rollbackSeqno, ownsLock, result)
    \/ QueueItem("k1")

SpecVBMap == InitSpecKV /\ [][NextVBMap]_vars

\* ------------------------------------------------------------------------
\* SpecExpiry: items of the partition expire while it is created, changes
\* state and is deleted
\* ------------------------------------------------------------------------
NextExpiry ==
    \/ \E it \in ExpiredItems, gv \in GetValues, info \in HookAnswers :
          DeleteExpiredItemHook(it, gv, info)
    \/ DeleteExpiredItemLocked
    \/ \E to \in VBStates :
          SetVBucketState(to, "empty", "Yes", NothingPersisted, TRUE)
    \/ DeleteVBucket

SpecExpiry == InitSpecKV /\ [][NextExpiry]_vars

\* ------------------------------------------------------------------------
\* SpecPager: the expiry pager is initialized, then enabled, disabled and
\* given sleep and task times in any order
\* ------------------------------------------------------------------------
NextPager ==
    \/ \E isExpPagerEnabled \in BOOLEAN, stime \in Sleeptimes :
          InitializeExpiryPager(isExpPagerEnabled, stime)
    \/ EnableExpiryPager
    \/ DisableExpiryPager
    \/ \E val \in Sleeptimes : SetExpiryPagerSleeptime(val)
    \/ \E val \in Tasktimes \ {NoTasktime} : SetExpiryPagerTasktime(val)

SpecPager == InitSpecKV /\ [][NextPager]_vars

\* ------------------------------------------------------------------------
\* SpecMock: engine functions are called through the EWOULDBLOCK wrappers
\* of the mock server and the engine notifies the cookie
\* ------------------------------------------------------------------------
NextMock ==
    \/ \E fn \in EngineWrappers, handle_ewouldblock \in BOOLEAN,
          ret \in EngineResults : CallEngine(fn, handle_ewouldblock, ret)
    \/ \E status \in NotifyStatuses : NotifyIoComplete(status)
    \/ \E ret \in EngineResults : WakeDoBlocking(ret)
    \/ \E ret \in EngineResults : WakeCallEngine(ret)

SpecMock == InitSpecKV /\ [][NextMock]_vars

\* ------------------------------------------------------------------------
\* SpecVisit: a VBCBAdaptor is made for a visitor and run until it is done,
\* while partitions are deleted
\* ------------------------------------------------------------------------
NextVisit ==
    \/ \E vbFilter \in SUBSET VisitIds, buckets \in BucketLists :
          ConstructAdaptor(vbFilter, buckets)
    \/ \E pause \in BOOLEAN : RunAdaptor(pause)
    \/ \E id \in VisitIds : DeleteVisitedBucket(id)
    \/ VisitorStopsPausing

SpecVisit == InitSpecKV /\ [][NextVisit]_vars

\* SpecVisitFair: the executor pool runs a task that is scheduled or snoozed
SpecVisitFair ==
    /\ SpecVisit
    /\ WF_vars(\E pause \in BOOLEAN : RunAdaptor(pause))

\* ------------------------------------------------------------------------
\* SpecClose: a connection is used by the engine, shut down and closed
\* ------------------------------------------------------------------------
NextClose ==
    \/ CloseConnection
    \/ InitiateShutdown
    \/ \E i \in CloseCookieIds : EmplaceCookie(i)
    \/ OpenDcpConnection
    \/ \E d \in {0} \union CloseCookieIds, by \in {-1, 1} :
          ChangeRefcount(d, by)
    \/ \E i \in CloseCookieIds, ewouldblock \in BOOLEAN :
          SetEwouldblock(i, ewouldblock)

SpecClose == InitSpecKV /\ [][NextClose]_vars

\* ------------------------------------------------------------------------
\* SpecLocks: the operations of KVBucket called concurrently, each taking
\* and releasing its locks
\* ------------------------------------------------------------------------
NextLocks ==
    \/ \E t \in LockThreads : \E script \in LockScripts(t) : LkCall(t, script)
    \/ \E t \in LockThreads : LkLock(t)
    \/ \E t \in LockThreads : LkTryLock(t)
    \/ \E t \in LockThreads : LkUnlock(t)

SpecLocks == InitSpecKV /\ [][NextLocks]_vars

\* ------------------------------------------------------------------------
\* Properties of the DurabilityMonitor (SpecDM)
\* ------------------------------------------------------------------------
\* the number of nodes of the chain, the active included, whose memory
\* tracking has reached seqno
MemoryAcked(seqno) ==
    Cardinality({n \in ChainNodes(chain) : pos[n].memWrite >= seqno})

\* at least ceil((|chain|+1)/2) nodes of the chain have reached seqno
HasMajority(seqno) == 2 * MemoryAcked(seqno) >= Len(chain) + 1

AckSucceeded == dmLast.op = "seqnoAckReceived" /\ dmLast.res = "success"

\* C1 as stated: a Majority SyncWrite is committed (no longer tracked) if and
\* only if a majority of the chain has memory write seqno >= its seqno: every
\* committed Majority write has the majority, and no tracked one has it.
C1_CommittedIffMajority ==
    /\ \A i \in 1..Len(commits) :
          commits[i].level = "Majority" => HasMajority(commits[i].seqno)
    /\ \A i \in 1..Len(trackedWrites) :
          trackedWrites[i].level = "Majority"
              => ~HasMajority(trackedWrites[i].seqno)

\* C1 amended: a Majority SyncWrite is committed only if a majority of the
\* chain, the active included, has memory write seqno >= its seqno (in a
\* 4-node chain: at least 3 nodes); and a Majority write that a successful
\* seqnoAckReceived leaves tracked although it has the majority is behind a
\* write of another level (so with Majority writes only, the ack commits
\* exactly the writes that have the majority).
C1_CommittedOnlyIfMajority ==
    /\ \A i \in 1..Len(commits) :
          commits[i].level = "Majority" => HasMajority(commits[i].seqno)
    /\ AckSucceeded =>
          \A i \in 1..Len(trackedWrites) :
              (/\ trackedWrites[i].level = "Majority"
               /\ HasMajority(trackedWrites[i].seqno))
                  => \E j \in 1..(i - 1) : trackedWrites[j].level # "Majority"

\* a Majority write of a 4-node chain is committed with the acks of replica2
\* and replica3, replica1 has not ack'ed
C1_Witness ==
    /\ Len(chain) = 4
    /\ pos[replica1].memAck = 0
    /\ \E i \in 1..Len(commits) :
          /\ commits[i].level = "Majority"
          /\ MemoryAcked(commits[i].seqno) = 3

\* C2: the SyncWrites are committed as a prefix of trackedWrites and in
\* increasing seqno order: every committed write has a smaller seqno than
\* every write still tracked, and the commits are in the order of the seqnos
\* of their prepares, whichever nodes ack'ed and in whichever order.
C2_CommitsArePrefix ==
    /\ \A i \in 1..Len(commits), j \in 1..Len(trackedWrites) :
          commits[i].seqno < trackedWrites[j].seqno
    /\ \A i, j \in 1..Len(commits) :
          i < j => /\ commits[i].seqno < commits[j].seqno
                   /\ commits[i].commitSeqno < commits[j].commitSeqno

\* an ack stopped at the first tracked write, which is not satisfied, although
\* the write behind it is
C2_Witness ==
    /\ AckSucceeded
    /\ Len(trackedWrites) = 2
    /\ ~IsSatisfied(trackedWrites[1], pos, chain)
    /\ IsSatisfied(trackedWrites[2], pos, chain)

\* the state right after seqnoAckReceived(replica1, mem=5, disk=0), the first
\* ack of the monitor, with chain [active, replica1, replica2] and the one
\* Majority SyncWrite of the partition prepared at seqno 5
C3_AfterFirstAck ==
    /\ chain = <<active, replica1, replica2>>
    /\ nAcks = 1
    /\ AckSucceeded
    /\ pos[replica1].memAck = 5
    /\ pos[replica1].diskAck = 0
    /\ pos[replica2].memAck = 0
    /\ Len(enqLog) >= 1
    /\ enqLog[1] = 5
    /\ Len(commits) + Len(trackedWrites) = 1
    /\ \A i \in 1..Len(commits) : commits[i].level = "Majority"
    /\ \A i \in 1..Len(trackedWrites) : trackedWrites[i].level = "Majority"

\* C3 as stated: after seqnoAckReceived(replica1, 5, 0) the write is still
\* pending: still tracked, no commit emitted.
C3_StillPendingAfterFirstAck ==
    C3_AfterFirstAck => /\ Len(trackedWrites) = 1
                        /\ commits = <<>>

\* C3 amended: the ack of replica1 alone gives the write the majority of the
\* 3-node chain: it emits the commit with seqno 6, notifies the client cookie
\* with Success and leaves nothing tracked; the following
\* seqnoAckReceived(replica2, 5, 0) finds nothing tracked, is refused and
\* changes nothing.
C3_CommittedByFirstAck ==
    [][ /\ C3_AfterFirstAck' =>
              /\ trackedWrites' = <<>>
              /\ Len(commits') = 1
              /\ commits'[1].seqno = 5
              /\ commits'[1].commitSeqno = 6
              /\ highSeqno' = 6
              /\ \E i \in 1..Len(ckpt') :
                    ckpt'[i] = [op |-> "commit_sync_write",
                                key |-> commits'[1].key, seqno |-> 6]
              /\ CookieOf(commits'[1].key) # NoCookie
                    => notified'[CookieOf(commits'[1].key)] = "Success"
        /\ (C3_AfterFirstAck /\ nAcks' = nAcks + 1) =>
              /\ dmLast'.res = "logic_error"
              /\ UNCHANGED <<chain, pos, trackedWrites, highSeqno, ckpt,
                             htCommitted, htPending, notified, enqLog,
                             commits>> ]_vars

\* replica2 sent its ack of seqno 5 after the ack of replica1 committed the
\* write of cookie c1
C3_Witness ==
    /\ chain = <<active, replica1, replica2>>
    /\ nAcks = 2
    /\ dmLast.op = "seqnoAckReceived"
    /\ dmLast.res = "logic_error"
    /\ pos[replica1].memAck = 5
    /\ pos[replica2].memAck = 0
    /\ trackedWrites = <<>>
    /\ Len(commits) = 1
    /\ commits[1].commitSeqno = 6
    /\ notified["c1"] = "Success"

\* ------------------------------------------------------------------------
\* Properties of the CheckpointManager (SpecCkpt)
\* ------------------------------------------------------------------------
\* C4: the seqnos assigned by the enqueues of a partition are strictly
\* increasing in the order of the enqueues, whatever is queued (mutation,
\* deletion, expiration, prepare, commit, set_vbucket_state) and also when
\* the item replaces one of the same key in the open checkpoint; no seqno is
\* assigned twice.
C4_SeqnosStrictlyIncreasing ==
    /\ \A i, j \in 1..Len(enqLog) : i < j => enqLog[i] < enqLog[j]
    /\ \A i, j \in 1..Len(ckpt) : i < j => ckpt[i].seqno < ckpt[j].seqno
    /\ enqLog # <<>> => highSeqno = enqLog[Len(enqLog)]

\* a commit and a set_vbucket_state are in the checkpoint, and an item was
\* de-duplicated
C4_Witness ==
    /\ Len(ckpt) < Len(enqLog)
    /\ \E i \in 1..Len(ckpt) : ckpt[i].op = "commit_sync_write"
    /\ \E i \in 1..Len(ckpt) : ckpt[i].op = "set_vbucket_state"
    /\ \E i \in 1..Len(ckpt) : ckpt[i].op = "mutation"


\* ------------------------------------------------------------------------
\* Properties of KVBucket (SpecKV)
\* ------------------------------------------------------------------------
\* the client writes
ClientWrites == {"set", "add", "replace", "deleteItem"}

\* thread t is past getVBucket and has not returned
Running(t) == op[t].pc # "idle"

\* the step by which thread t returns from its operation
Returns(t) == Running(t) /\ op'[t].pc = "idle"

\* the step by which thread t calls the VBucket: the operation changes (or
\* reads) the hash table and queues its item
Applies(t) ==
    /\ op[t].pc \in {"locked", "admitted"}
    /\ op'[t] = Return("Success")

\* C5: a client set, add, replace or delete of a partition that is not in
\* the map, or that has been dead or replica ever since the operation got
\* it, returns NotMyVBucket, and so never calls the VBucket.
C5_NotMyPartition ==
    [][ \A t \in {KVCookie} :
          /\ (~Running(t) /\ op'[t] # op[t] /\ vbMap = NoVB)
                => op'[t] = Return("NotMyVBucket")
          /\ (Returns(t) /\ op[t].kind \in ClientWrites /\ ~op[t].live)
                => op'[t] = Return("NotMyVBucket") ]_vars

\* C6: an operation that reads state pending from the partition queues its
\* cookie and returns WouldBlock, and none of these operations calls the
\* VBucket of a partition that is pending.
C6_PendingWouldBlock ==
    [][ \A t \in {KVCookie} :
          LET o == op[t].vb
              readsPending ==
                  \/ /\ op[t].pc = "got"
                     /\ op[t].kind \in {"set", "add", "replace",
                                        "getAndUpdateTtl"}
                     /\ vbState[o] = vbucket_state_pending
                  \/ op[t].pc = "sawPending"
          IN /\ (readsPending /\ op'[t] # op[t])
                   => /\ op'[t] = Return("WouldBlock")
                      /\ t \in pendingOps'[o]
             /\ (Applies(t) /\ op[t].kind \in {"set", "add", "replace",
                                              "deleteItem",
                                              "getAndUpdateTtl"})
                   => vbState[o] # vbucket_state_pending ]_vars

\* C7: a cookie queued in pendingOps of a partition that is no longer
\* pending is eventually resumed.
C7_PendingOpsResumed ==
    \A o \in VBObjects :
        (KVCookie \in pendingOps[o] /\ vbState[o] # vbucket_state_pending)
            ~> (KVCookie \notin pendingOps[o])

\* C8: a set, add, replace or delete that passes its state check on an
\* active partition whose takeover is backed up returns TempFail.
C8_TakeoverBackedUpTempFail ==
    [][ \A t \in {KVCookie} :
          LET o == op[t].vb
              checksTakeover ==
                  \/ op[t].pc = "got" /\ op[t].kind \in {"set", "add",
                                                         "replace"}
                  \/ op[t].pc = "notPending"
          IN (/\ checksTakeover
              /\ op'[t] # op[t]
              /\ vbState[o] = vbucket_state_active
              /\ takeoverBackedUp[o])
                 => op'[t] = Return("TempFail") ]_vars

\* C9: from the state check of a mutating operation to its call of the
\* VBucket the state of the partition does not change, and an operation
\* admitted to an active partition is applied to an active partition.
C9_StateLockHeld ==
    [][ \A t \in Threads :
          LET o == op[t].vb
          IN /\ op[t].pc \in {"locked", "notDead", "notReplica", "sawPending",
                              "notPending", "admitted"}
                   => vbState'[o] = vbState[o]
             /\ (Applies(t) /\ op[t].kind \in {"set", "add", "replace",
                                              "deleteItem", "getAndUpdateTtl",
                                              "deleteExpiredItem"})
                   => vbState[o] = vbucket_state_active ]_vars

\* the transitions of the state machine of a partition
AllowedTransition(from, to) ==
    \/ from = "none"
    \/ from = vbucket_state_active /\ to = vbucket_state_replica
    \/ from = vbucket_state_replica /\ to = vbucket_state_active
    \/ to = vbucket_state_pending
    \/ from = vbucket_state_pending
          /\ to \in {vbucket_state_active, vbucket_state_replica}
    \/ to = vbucket_state_dead

\* C10: the state of a partition changes along the transitions of the state
\* machine only; a dead partition does not become active or replica.
C10_StateMachine ==
    [][ \A o \in VBObjects :
          vbState'[o] # vbState[o]
              => AllowedTransition(vbState[o], vbState'[o]) ]_vars

\* ------------------------------------------------------------------------
\* Properties of the failover table and of rollback (SpecFailover)
\* ------------------------------------------------------------------------
\* the partition of the map is promoted by this step: the same object was
\* replica or pending and is active
Promoted ==
    /\ vbMap # NoVB
    /\ vbMap' = vbMap
    /\ vbState[vbMap] \in {vbucket_state_replica, vbucket_state_pending}
    /\ vbState'[vbMap] = vbucket_state_active

\* the UUIDs of the entries of every failover table
UuidsInUse ==
    UNION {{failovers[o][i].vb_uuid : i \in 1..Len(failovers[o])} :
             o \in VBObjects}

\* C11: whenever setVBucketState promotes an existing partition from replica
\* or pending to active, an entry of a UUID that no table held before and of
\* the high seqno of the partition at that time is put in front of its
\* failover table, and getLatestEntry() returns it
C11_PromotionCreatesFailoverEntry ==
    [][Promoted =>
         /\ failovers'[vbMap] # <<>>
         /\ failovers'[vbMap] =
               <<GetLatestEntry(failovers'[vbMap])>> \o failovers[vbMap]
         /\ GetLatestEntry(failovers'[vbMap]).vb_uuid \notin UuidsInUse
         /\ GetLatestEntry(failovers'[vbMap]).by_seqno = vbHighSeqno[vbMap]
      ]_vars

\* this step is a call of KVBucket::rollback
RollbackCalled == rollbackLast'.call # rollbackLast.call

\* C12: whenever rollback returns Complete, by the rewind of the KVStore or
\* by the reset of the partition, no DCP stream of the partition is open
\* when it returns
C12_CompleteClosesStreams ==
    [][(RollbackCalled /\ rollbackLast'.res = "Complete")
          => dcpStreams' = {}]_vars

\* a rollback by rewind completed on a partition that had a stream open
C12_Witness ==
    /\ rollbackLast.res = "Complete"
    /\ rollbackLast.how = "doRollback"
    /\ rollbackLast.found # {}
    /\ dcpStreams = {}

\* this step is a call of KVBucket::rollback that got the lock of a replica
\* or pending partition
RollbackOfReplicaOrPending ==
    /\ RollbackCalled
    /\ rollbackLast'.res # "Reschedule"
    /\ vbMap # NoVB
    /\ vbState[vbMap] \in {vbucket_state_replica, vbucket_state_pending}

\* this step has reset the partition: a new object, in the state of the old
\* one, with nothing queued, a failover table of its own and the cursors of
\* the old one, is in the map
PartitionReset ==
    /\ vbMap' \notin {vbMap, NoVB}
    /\ vbState[vbMap'] = "none"
    /\ vbState'[vbMap'] = vbState[vbMap]
    /\ vbHighSeqno'[vbMap'] = 0
    /\ Len(failovers'[vbMap']) = 1
    /\ cursors'[vbMap'] = cursors[vbMap]
    /\ cursors'[vbMap] = {}

\* C13: a rollback of a replica or pending partition to seqno 0 does not
\* call the KVStore and resets the partition (a new empty object in the same
\* state that has the cursors of the old one); a rollback to a seqno > 0
\* calls the KVStore, and resets the partition only if the KVStore failed or
\* rewound to high seqno 0, else the partition is kept at the high seqno of
\* the KVStore
C13_RewindOrReset ==
    [][RollbackOfReplicaOrPending =>
         /\ rollbackLast'.res = "Complete"
         /\ rollbackLast'.rollbackSeqno = 0 =>
               /\ rollbackLast'.how = "reset"
               /\ PartitionReset
         /\ rollbackLast'.rollbackSeqno > 0 =>
               IF rollbackLast'.result.success
                     /\ rollbackLast'.result.highSeqno > 0
               THEN /\ rollbackLast'.how = "doRollback"
                    /\ vbMap' = vbMap
                    /\ vbState'[vbMap] = vbState[vbMap]
                    /\ vbHighSeqno'[vbMap] = rollbackLast'.result.highSeqno
               ELSE /\ rollbackLast'.how = "doRollback, reset"
                    /\ PartitionReset
      ]_vars

\* a partition with a cursor and items queued was reset by a rollback to 0,
\* and its new object has the cursor
C13_Witness ==
    /\ rollbackLast.res = "Complete"
    /\ rollbackLast.how = "reset"
    /\ rollbackLast.rollbackSeqno = 0
    /\ vbMap # NoVB
    /\ cursors[vbMap] # {}
    /\ vbHighSeqno[vbMap] = 0
    /\ vbState[vbMap] \in {vbucket_state_replica, vbucket_state_pending}

\* ------------------------------------------------------------------------
\* Properties of the collections manager (SpecColl, SpecCollManager)
\* ------------------------------------------------------------------------
\* C14: at most one update holds the lock of the manager; a call of
\* Manager::update that finds the lock held by another update returns
\* temporary_failure at once, and neither the current manifest nor the
\* manifest of a partition is changed by it
C14_OneUpdateAtATime ==
    [][/\ Cardinality(ManagerLockHolders') <= 1
       /\ \A u \in Updaters :
             (/\ upd[u].pc = "update"
              /\ upd'[u] # upd[u]
              /\ ManagerLockHolders # {})
                => /\ upd'[u] = IdleUpdate("temporary_failure")
                   /\ current' = current
                   /\ vbManifest' = vbManifest
      ]_vars

\* an update was refused while the other one was updating the partitions
C14_Witness ==
    \E u, v \in Updaters :
       /\ upd[u] = IdleUpdate("temporary_failure")
       /\ upd[v].pc \in {"updateAllVBuckets", "commit", "rollback"}

\* C15: an update that a partition rejected ends with cannot_apply, the
\* current manifest is the one that was current before, and the partition is
\* updated from nothing but that manifest; an update of invalid JSON ends
\* with invalid_arguments and changes neither the current manifest nor the
\* manifest of a partition
C15_RejectedUpdateRollsBack ==
    [][\A u \in Updaters :
          /\ (upd[u].pc = "rollback" /\ upd'[u] # upd[u])
                => /\ upd'[u] = IdleUpdate("cannot_apply")
                   /\ current' = upd[u].before
                   /\ GetManifest' = GetManifest
                   /\ \A o \in VBObjects :
                         vbManifest'[o] \in {vbManifest[o], upd[u].before}
          /\ (/\ upd[u].pc = "update"
              /\ upd[u].manifest = InvalidJson
              /\ upd'[u] # upd[u]
              /\ ManagerLockHolders = {})
                => /\ upd'[u] = IdleUpdate("invalid_arguments")
                   /\ current' = current
                   /\ vbManifest' = vbManifest
      ]_vars

\* C16: when no update is under way and none has failed, the partition of
\* the map, if it is active, has the current manifest of the manager
C16_ActiveHasCurrentManifest ==
    (/\ ~collFailed
     /\ \A u \in Updaters : upd[u].pc = "idle"
     /\ current # NoManifest
     /\ vbMap # NoVB
     /\ vbState[vbMap] = vbucket_state_active)
        => vbManifest[vbMap] = current

\* ------------------------------------------------------------------------
\* C17: completeBGFetchMulti notifies the cookie of every item of its batch
\* exactly once: with the status the fetch of the item completed with if
\* the partition is in the map, with NotMyVBucket if it has been deleted.
\* No cookie of the batch is skipped or notified twice, and no other cookie
\* is notified.
\* ------------------------------------------------------------------------
BatchCookies == {bgLast.items[i].cookie : i \in 1..Len(bgLast.items)}

C17_FetchedCookiesNotifiedOnce ==
    /\ \A i \in 1..Len(bgLast.items) :
          LET c == bgLast.items[i].cookie
          IN  /\ bgLast.before[c] = <<>>
              /\ c \notin BGSuspended =>
                    /\ Len(ioComplete[c]) = 1
                    /\ ioComplete[c][1] = bgLast.status[i]
              /\ bgLast.vb = NoVB => bgLast.status[i] = "NotMyVBucket"
              /\ bgLast.vb # NoVB => bgLast.status[i] \in BGFetchStatuses
    /\ \A c \in Cookies :
          /\ Len(ioComplete[c]) <= 1
          /\ c \in BGSuspended => ioComplete[c] = <<>>

\* a batch of two fetches was completed for a deleted partition, both
\* cookies notified
C17_Witness ==
    /\ Len(bgLast.items) = 2
    /\ bgLast.vb = NoVB
    /\ \A c \in Cookies : ioComplete[c] = <<"NotMyVBucket">>

\* ------------------------------------------------------------------------
\* C18: seqnoAckReceived(node, memSeqno, diskSeqno) with memSeqno < diskSeqno,
\* or called while no SyncWrite is tracked (all of them committed and removed
\* included), is refused with a logic error; no position of a node and
\* nothing of trackedWrites changes.
\* ------------------------------------------------------------------------
\* a call of seqnoAckReceived was refused and has changed nothing
RefusedUnchanged(what) ==
    /\ dmLast'.res = "logic_error"
    /\ dmLast'.what = what
    /\ UNCHANGED <<chain, pos, trackedWrites, commits, highSeqno, ckpt>>

C18_AckRejectedUnchanged ==
    [][ (/\ nAcks' = nAcks + 1
         /\ dmLast'.memoryBelowDisk \/ trackedWrites = <<>>)
        => RefusedUnchanged(IF dmLast'.memoryBelowDisk
                            THEN "memorySeqno < diskSeqno"
                            ELSE "No tracked SyncWrite") ]_vars

\* an ack came after every tracked SyncWrite was committed and removed, and
\* was refused
C18_Witness ==
    /\ dmLast.op = "seqnoAckReceived"
    /\ dmLast.res = "logic_error"
    /\ dmLast.what = "No tracked SyncWrite"
    /\ trackedWrites = <<>>
    /\ Len(commits) = 2
    /\ nAcks = 2

\* ------------------------------------------------------------------------
\* C19: the memory and disk ack seqnos of a node never decrease; while
\* SyncWrites are tracked, an ack of a memory or disk seqno smaller than the
\* one the node ack'ed last is refused with a logic error (Monotonic) and
\* the ack seqnos recorded for the node stay as they were.
\* ------------------------------------------------------------------------
C19_AckSeqnosMonotonic ==
    [][ /\ \A n \in Nodes :
              /\ pos'[n].memAck >= pos[n].memAck
              /\ pos'[n].diskAck >= pos[n].diskAck
        /\ (/\ nAcks' = nAcks + 1
            /\ trackedWrites # <<>>
            /\ dmLast'.belowLastAck)
           => /\ dmLast'.res = "logic_error"
              /\ ~dmLast'.memoryBelowDisk => dmLast'.what = "Monotonic"
              /\ pos' = pos ]_vars

\* replica1 ack'ed seqno 1, which committed the first of two SyncWrites, and
\* then an ack was refused as not monotonic
C19_Witness ==
    /\ chain = <<active, replica1>>
    /\ dmLast.op = "seqnoAckReceived"
    /\ dmLast.res = "logic_error"
    /\ dmLast.what = "Monotonic"
    /\ dmLast.belowLastAck
    /\ pos[replica1].memAck = 1
    /\ Len(commits) = 1
    /\ Len(trackedWrites) = 1

\* ------------------------------------------------------------------------
\* C20: after a successful seqnoAckReceived(node, m, d) the ack seqnos of the
\* node are m (memory) and d (disk), and each write seqno of the node is the
\* largest seqno, among the SyncWrites tracked when the ack came, that is
\* <= the ack'ed seqno (it stays where it was if there is none), so write
\* seqno <= ack seqno; this is so after the SyncWrites the ack committed have
\* been removed from tracking.  No other node's position moves.
\* ------------------------------------------------------------------------
TrackedUpTo(seqno) ==
    {trackedWrites[i].seqno :
        i \in {j \in 1..Len(trackedWrites) : trackedWrites[j].seqno <= seqno}}

LargestTrackedUpTo(new, old, ackSeqno) ==
    IF TrackedUpTo(ackSeqno) = {} THEN new = old
    ELSE /\ new \in TrackedUpTo(ackSeqno)
         /\ \A t \in TrackedUpTo(ackSeqno) : t <= new

DiskAcked(p, seqno) ==
    Cardinality({n \in ChainNodes(chain) : p[n].diskWrite >= seqno})

C21_PersistToMajorityNeedsActive ==
    [][ /\ \A i \in 1..Len(commits') :
              commits'[i].level = "PersistToMajority" =>
                 /\ 2 * DiskAcked(pos', commits'[i].seqno) >= Len(chain) + 1
                 /\ pos'[active].diskWrite >= commits'[i].seqno
        /\ nAcks' = nAcks + 1 =>
              \A m \in SparseAckSeqnos : \A d \in {0, m} :
                 SeqnoAckReceived(replica1, m, d) =>
                    /\ pos'[active] = pos[active]
                    /\ \A i \in 1..Len(trackedWrites) :
                          (/\ trackedWrites[i].level = "PersistToMajority"
                           /\ pos[active].diskWrite < trackedWrites[i].seqno)
                          => \E j \in 1..Len(trackedWrites') :
                                trackedWrites'[j] = trackedWrites[i] ]_vars

\* replica1 has ack'ed a disk seqno beyond the two PersistToMajority writes
\* tracked, the active has persisted nothing, nothing is committed
C21_Witness ==
    /\ dmLast.op = "seqnoAckReceived"
    /\ dmLast.res = "success"
    /\ Len(trackedWrites) = 2
    /\ \A i \in 1..2 : trackedWrites[i].level = "PersistToMajority"
    /\ pos[replica1].diskWrite = trackedWrites[2].seqno
    /\ pos[replica1].diskAck > trackedWrites[2].seqno
    /\ pos[active].diskWrite = 0
    /\ pos[active].diskAck = 0
    /\ commits = <<>>

\* ------------------------------------------------------------------------
\* C22: when a pending SyncWrite of seqno s is registered with the monitor
\* (addSyncWrite), the memory write and ack seqnos of the active become s
\* with no seqnoAckReceived, the positions of every replica (and the disk
\* seqnos of the active) stay as they were, and one more write is tracked.
\* ------------------------------------------------------------------------
C22_AddSyncWriteMovesActive ==
    [][ (dmLast'.op = "addSyncWrite" /\ Len(enqLog') = Len(enqLog) + 1) =>
          LET s == enqLog'[Len(enqLog')]
              a == ActiveNode(chain)
          IN  /\ nAcks' = nAcks
              /\ pos'[a].memWrite = s
              /\ pos'[a].memAck = s
              /\ pos'[a].diskWrite = pos[a].diskWrite
              /\ pos'[a].diskAck = pos[a].diskAck
              /\ \A n \in Nodes \ {a} : pos'[n] = pos[n]
              /\ Len(trackedWrites') = Len(trackedWrites) + 1
              /\ trackedWrites'[Len(trackedWrites')].seqno = s
              /\ \A i \in 1..Len(trackedWrites) :
                    trackedWrites'[i] = trackedWrites[i] ]_vars

\* the first SyncWrite of a chain of four nodes is tracked at seqno 1: the
\* active is at 1, no replica has ack'ed
C22_Witness ==
    /\ chain = <<active, replica1, replica2, replica3>>
    /\ dmLast.op = "addSyncWrite"
    /\ nAcks = 0
    /\ Len(trackedWrites) = 1
    /\ trackedWrites[1].seqno = 1
    /\ pos[active].memWrite = 1
    /\ pos[active].memAck = 1
    /\ \A n \in {replica1, replica2, replica3} : pos[n] = ZeroPosition

\* ------------------------------------------------------------------------
\* C23 as stated: from the store of a pending SyncWrite of key k until its
\* commit, findForRead(k) returns no StoredValue, findForWrite(k) returns a
\* Pending StoredValue and the checkpoint holds a pending_sync_write item
\* (Pending) of k; each store adds one hash-table item, one checkpoint item
\* and one tracked write.
\* ------------------------------------------------------------------------
ItemsOfKey(items, k) == SelectSeq(items, LAMBDA it : it.key = k)

PendingItemQueued(items, k) ==
    /\ Len(ItemsOfKey(items, k)) = 1
    /\ ItemsOfKey(items, k)[1].op = "pending_sync_write"
    /\ GetCommitted(ItemsOfKey(items, k)[1].op) = "Pending"

SyncWriteStored == Len(trackedWrites') = Len(trackedWrites) + 1

C23_PendingHidesKey ==
    [][ /\ \A k \in Keys : htPending'[k] =>
              /\ FindForRead(htCommitted', k) = "nullptr"
              /\ FindForWrite(htCommitted', htPending', k) = "Pending"
              /\ PendingItemQueued(ckpt', k)
        /\ SyncWriteStored =>
              /\ GetNumItems(htCommitted', htPending')
                    = GetNumItems(htCommitted, htPending) + 1
              /\ Len(ckpt') = Len(ckpt) + 1 ]_vars

\* C23 amended: from the store of a pending SyncWrite of key k until its
\* commit, findForWrite(k) returns the Pending StoredValue, findForRead(k)
\* does not see it (it returns what it returned before the store: nothing
\* for a key with no committed value, the committed StoredValue otherwise)
\* and the one item of k in the checkpoint is its pending_sync_write item;
\* each store adds one hash-table item and one tracked write, and one
\* checkpoint item unless it replaces the item of k of the open checkpoint.
C23_PendingBesideCommitted ==
    [][ /\ \A k \in Keys : htPending'[k] =>
              /\ FindForRead(htCommitted', k) # "Pending"
              /\ htCommitted'[k] = "none" =>
                    FindForRead(htCommitted', k) = "nullptr"
              /\ FindForWrite(htCommitted', htPending', k) = "Pending"
              /\ PendingItemQueued(ckpt', k)
        /\ SyncWriteStored =>
              \E k \in Keys :
                 /\ ~htPending[k] /\ htPending'[k]
                 /\ \A o \in Keys \ {k} : htPending'[o] = htPending[o]
                 /\ htCommitted' = htCommitted
                 /\ GetNumItems(htCommitted', htPending')
                       = GetNumItems(htCommitted, htPending) + 1
                 /\ Len(ckpt') = Len(ckpt) + 1 - Len(ItemsOfKey(ckpt, k)) ]_vars

\* a SyncWrite of key k1 is pending beside the committed value of k1, whose
\* mutation it has replaced in the checkpoint
C23_Witness ==
    /\ htPending["k1"]
    /\ htCommitted["k1"] = "CommittedViaMutation"
    /\ FindForRead(htCommitted, "k1") = "CommittedViaMutation"
    /\ FindForWrite(htCommitted, htPending, "k1") = "Pending"
    /\ Len(trackedWrites) = 1
    /\ Len(ckpt) = 1
    /\ ckpt[1].op = "pending_sync_write"

\* ------------------------------------------------------------------------
\* C24 as stated: when a replica acknowledges a memory seqno >= the seqno of
\* every tracked Majority SyncWrite, every one of their keys is visible to
\* findForRead as CommittedViaPrepare, and the checkpoint receives one
\* commit_sync_write item per committed prepare and no other item.
\* ------------------------------------------------------------------------
TrackedMajority ==
    SelectSeq(trackedWrites, LAMBDA w : w.level = "Majority")

\* the ack of replica1 that has just succeeded covers every tracked Majority
\* SyncWrite
ReplicaAckCovers(tw) ==
    /\ nAcks' = nAcks + 1
    /\ dmLast'.res = "success"
    /\ tw # <<>>
    /\ \E m \in SparseAckSeqnos : \E d \in {0, m} :
          /\ \A i \in 1..Len(tw) : tw[i].seqno <= m
          /\ SeqnoAckReceived(replica1, m, d)

\* the SyncWrites tw are committed by the step: their keys are visible as
\* CommittedViaPrepare and the checkpoint has received their commits, in
\* order, and nothing else
CommittedByStep(tw) ==
    /\ \A i \in 1..Len(tw) :
          /\ FindForRead(htCommitted', tw[i].key) = "CommittedViaPrepare"
          /\ ~htPending'[tw[i].key]
          /\ \E j \in 1..Len(ckpt') :
                /\ ckpt'[j] = [op |-> "commit_sync_write", key |-> tw[i].key,
                               seqno |-> highSeqno + i]
                /\ GetCommitted(ckpt'[j].op) = "CommittedViaPrepare"
    /\ highSeqno' = highSeqno + Len(tw)
    /\ Len(enqLog') = Len(enqLog) + Len(tw)
    /\ \A j \in 1..Len(ckpt') :
          \/ \E i \in 1..Len(ckpt) : ckpt'[j] = ckpt[i]
          \/ \E i \in 1..Len(tw) :
                /\ ckpt'[j].op = "commit_sync_write"
                /\ ckpt'[j].key = tw[i].key

C24_ReplicaAckCommitsMajority ==
    [][ ReplicaAckCovers(TrackedMajority)
           => CommittedByStep(TrackedMajority) ]_vars

\* C24 amended: when a replica whose ack makes the majority (chain [active,
\* replica]) acknowledges a memory seqno >= the seqno of every tracked
\* SyncWrite and all of them are of level Majority, every one of their keys
\* is visible to findForRead as CommittedViaPrepare, nothing stays tracked,
\* and the checkpoint receives one commit_sync_write item per prepare, in
\* the order of the prepares, and no other item.  Whatever the levels, an
\* ack commits the leading tracked writes whose requirement is verified and
\* leaves the key of every other tracked write pending.
C24_AckCommitsSatisfiedPrefix ==
    [][ /\ (/\ ReplicaAckCovers(trackedWrites)
            /\ TrackedMajority = trackedWrites)
           => /\ CommittedByStep(trackedWrites)
              /\ trackedWrites' = <<>>
        /\ (nAcks' = nAcks + 1 /\ dmLast'.res = "success") =>
              \E n \in 0..Len(trackedWrites) :
                 /\ CommittedByStep(SubSeq(trackedWrites, 1, n))
                 /\ trackedWrites'
                       = SubSeq(trackedWrites, n + 1, Len(trackedWrites))
                 /\ \A i \in (n + 1)..Len(trackedWrites) :
                       /\ htPending'[trackedWrites[i].key]
                       /\ htCommitted'[trackedWrites[i].key]
                             = htCommitted[trackedWrites[i].key] ]_vars

\* the Majority SyncWrites of seqnos 1 and 3 are committed by one ack of
\* replica1: both keys are visible, the commits have seqnos 4 and 5
C24_Witness ==
    /\ nAcks = 1
    /\ dmLast.op = "seqnoAckReceived"
    /\ dmLast.res = "success"
    /\ trackedWrites = <<>>
    /\ Len(commits) = 2
    /\ commits[1].seqno = 1 /\ commits[1].level = "Majority"
    /\ commits[2].seqno = 3 /\ commits[2].level = "Majority"
    /\ \A k \in Keys : FindForRead(htCommitted, k) = "CommittedViaPrepare"
    /\ Len(ckpt) = 2
    /\ \A j \in 1..2 : ckpt[j].op = "commit_sync_write"
    /\ ckpt[1].seqno = 4 /\ ckpt[2].seqno = 5

ChainCountOk(t) == Len(t.items) \in 1..2
ChainIsArray(t, i) == t.items[i].type = "array"
ChainSizeOk(t, i) == Len(t.items[i].items) \in 1..4
NodeIsString(t, i, j) == t.items[i].items[j].type = "string"
\* the element i of t is a chain of 1..4 strings
ChainWellFormed(t, i) ==
    /\ ChainIsArray(t, i)
    /\ ChainSizeOk(t, i)
    /\ \A j \in 1..Len(t.items[i].items) : NodeIsString(t, i, j)
TopologyWellFormed(t) ==
    /\ t.type = "array"
    /\ ChainCountOk(t)
    /\ \A i \in 1..Len(t.items) : ChainWellFormed(t, i)

\* C26: validateSetStateMeta of a meta object that holds only 'topology'
\* returns the empty string exactly when the value is an array of 1..2
\* chains, each an array of 1..4 nodes, each node a string; otherwise the
\* message is not empty and names the first rule that is violated: the
\* number of chains, or for the first chain that is not well formed, that it
\* is no array, else that it does not hold 1..4 nodes, else its first node
\* that is no string
C26_ValidateTopology ==
    metaResult # NotValidated =>
        LET t == setStateMeta.topology
            r == metaResult
        IN
        /\ r.what = "" <=> TopologyWellFormed(t)
        /\ r.what = "'topology' must contain 1..2 elements"
              <=> t.type = "array" /\ ~ChainCountOk(t)
        /\ t.type = "array" /\ ChainCountOk(t) /\ ~TopologyWellFormed(t) =>
              /\ r.chain + 1 \in 1..Len(t.items)
              /\ \A i \in 1..r.chain : ChainWellFormed(t, i)
              /\ r.what = "'topology' chain[] must be an array"
                    <=> ~ChainIsArray(t, r.chain + 1)
              /\ r.what = "'topology' chain[] must contain 1..4 nodes"
                    <=> ChainIsArray(t, r.chain + 1) /\ ~ChainSizeOk(t, r.chain + 1)
              /\ ChainIsArray(t, r.chain + 1) /\ ChainSizeOk(t, r.chain + 1) =>
                    /\ r.what = "'topology' chain[] node[] must be a string"
                    /\ r.node + 1 \in 1..Len(t.items[r.chain + 1].items)
                    /\ ~NodeIsString(t, r.chain + 1, r.node + 1)
                    /\ \A j \in 1..r.node : NodeIsString(t, r.chain + 1, j)

\* two chains, the second node of the second is a number: "chain[1] node[1]
\* must be a string"
C26_Witness ==
    /\ setStateMeta.topology =
          JArray(<<JArray(<<JString, JString>>), JArray(<<JString, JNumber>>)>>)
    /\ metaResult = [what |-> "'topology' chain[] node[] must be a string",
                     chain |-> 1, node |-> 1]
\* ------------------------------------------------------------------------
\* C27 (as stated): a client that negotiated extended errors gets every code
\* unchanged; one that did not gets KeyExists for Locked, TempFailure for
\* LockedTempFailure and for SyncWriteInProgress, and every other code
\* unchanged
C27_OnlyThreeCodesRemapped ==
    remapLast # NoRemap =>
        remapLast.ret =
            IF xerror_support THEN remapLast.code
            ELSE IF remapLast.code = "ENGINE_LOCKED" THEN "ENGINE_KEY_EEXISTS"
            ELSE IF remapLast.code \in {"ENGINE_LOCKED_TMPFAIL",
                                        "ENGINE_SYNC_WRITE_IN_PROGRESS"}
                 THEN "ENGINE_TMPFAIL"
            ELSE remapLast.code

\* the codes a client without extended errors is not prepared to receive
CodesThatDisconnect ==
    {"ENGINE_EACCESS", "ENGINE_NO_BUCKET", "ENGINE_AUTH_STALE",
     "ENGINE_DURABILITY_IMPOSSIBLE", "ENGINE_SYNC_WRITE_AMBIGUOUS",
     "ENGINE_DCP_STREAMID_INVALID"}
CollectionsCodes ==
    {"ENGINE_UNKNOWN_COLLECTION", "ENGINE_COLLECTIONS_MANIFEST_IS_AHEAD"}

\* C27 (amended): as stated, except that for a client without extended errors
\* Access, NoBucket, AuthStale, DurabilityImpossible, SyncWriteAmbiguous and
\* DcpStreamIdInvalid are answered with Disconnect, and UnknownCollection and
\* CollectionsManifestAhead with InvalidArgument unless the client supports
\* collections
C27_RemapTable ==
    remapLast # NoRemap =>
        LET code == remapLast.code
            ret == remapLast.ret
        IN
        /\ xerror_support => ret = code
        /\ ~xerror_support =>
              /\ code = "ENGINE_LOCKED" => ret = "ENGINE_KEY_EEXISTS"
              /\ code \in {"ENGINE_LOCKED_TMPFAIL",
                           "ENGINE_SYNC_WRITE_IN_PROGRESS"} => ret = "ENGINE_TMPFAIL"
              /\ code \in CodesThatDisconnect => ret = "ENGINE_DISCONNECT"
              /\ code \in CollectionsCodes /\ ~collectionsSupported =>
                    ret = "ENGINE_EINVAL"
              /\ code \in CollectionsCodes /\ collectionsSupported => ret = code
              /\ code \notin ({"ENGINE_LOCKED", "ENGINE_LOCKED_TMPFAIL",
                               "ENGINE_SYNC_WRITE_IN_PROGRESS"}
                                 \cup CodesThatDisconnect \cup CollectionsCodes) =>
                    ret = code

\* a client without extended errors is disconnected on SyncWriteAmbiguous
C27_Witness ==
    /\ ~xerror_support
    /\ remapLast = [code |-> "ENGINE_SYNC_WRITE_AMBIGUOUS",
                    ret |-> "ENGINE_DISCONNECT"]
\* ------------------------------------------------------------------------
RECURSIVE Concat(_)
Concat(bufs) == IF bufs = <<>> THEN <<>> ELSE Head(bufs) \o Concat(Tail(bufs))

\* Connection::mutation has queued a packet that is still in the list
MutationQueued == mutationLast.ret = "ENGINE_SUCCESS" /\ iov # <<>>

\* the bytes of the packet the last call of Connection::mutation queued, in
\* the order they are sent
QueuedPacket ==
    Concat(SubSeq(iov, Len(iov) - mutationLast.queued + 1, Len(iov)))

\* the bytes of the key, given the packet and the offset of the key (none
\* when the packet ends before)
KeyBytesAt(p, offset) ==
    IF offset + mutationLast.req.keylen <= Len(p)
    THEN SubSeq(p, offset + 1, offset + mutationLast.req.keylen)
    ELSE <<>>
IsKey(bytes) ==
    /\ Len(bytes) = mutationLast.req.keylen
    /\ \A i \in 1..Len(bytes) : bytes[i] \in {"collection-ID", "key"}

\* the header and what precedes the key in every reading: 24 bytes of
\* header, the stream-id frame-info exactly when a stream id is set (and then
\* the alt-client magic), 31 bytes of extras
PacketPrefix ==
    Bytes("req", 24)
        \o (IF mutationLast.sid # 0
            THEN Bytes("frameExtras", SizeofDcpStreamIdFrameInfo) ELSE <<>>)
        \o Bytes("extras", 31)
PrefixFields ==
    /\ mutationLast.req.magic = "AltClientRequest" <=> mutationLast.sid # 0
    /\ mutationLast.req.framingExtraslen = Len(PacketPrefix) - 24 - 31
    /\ mutationLast.req.extlen = 31

C29_MetaAfterValue ==
    MutationQueued =>
        LET p == QueuedPacket
            key == KeyBytesAt(p, Len(PacketPrefix))
            nvalue == mutationLast.req.bodylen - mutationLast.req.keylen
                         - mutationLast.nmeta - 31
        IN
        /\ IsKey(key)
        /\ p = PacketPrefix \o key \o Bytes("value", nvalue)
                  \o Bytes("meta", mutationLast.nmeta)
\* ------------------------------------------------------------------------
\* the entries of the table of request r the consumer's seqno has reached
EntriesReached(r) == {i \in 1..Len(r.ft) : r.ft[i].by_seqno <= r.start_seqno}

\* C30: the producer answers a stream request (uuid, seqno) from the newest
\* entry of the failover table whose seqno <= the consumer's seqno, and with
\* a rollback to 0 if there is none; with (UUID_B, 4) at the head of the
\* table the request uuid=UUID_A, start=7 is answered Rollback(4), and the
\* request uuid=UUID_B, start=4, snap=[4,4] succeeds, the stream beginning at
\* seqno 5
C30_StreamRequestNegotiation ==
    \A n \in 1..Len(streamReqLog) :
        LET r == streamReqLog[n]
            \* the table is ordered newest first
            newest == CHOOSE i \in EntriesReached(r) :
                         \A j \in EntriesReached(r) : i <= j
        IN
        /\ EntriesReached(r) = {} =>
              r.status = "Rollback" /\ r.rollback_seqno = 0
        /\ EntriesReached(r) # {} =>
              /\ r.status = "Rollback" =>
                    /\ r.rollback_seqno = r.ft[newest].by_seqno
                    /\ r.ft[newest].vb_uuid # r.uuid
              /\ r.status = "Success" =>
                    /\ r.ft[newest].vb_uuid = r.uuid
                    /\ r.begins = r.start_seqno + 1
        /\ Head(r.ft) = [vb_uuid |-> UUID_B, by_seqno |-> 4] =>
              /\ r.uuid = UUID_A /\ r.start_seqno = 7 =>
                    r.status = "Rollback" /\ r.rollback_seqno = 4
              /\ r.uuid = UUID_B /\ r.start_seqno = 4 =>
                    /\ r.status = "Success"
                    /\ r.snap_start = 4 /\ r.snap_end = 4
                    /\ r.begins = 5

\* the scenario: the new active holds (UUID_B, 4); the consumer of
\* (UUID_A, 7) is told to roll back to 4 and its request of (UUID_B, 4)
\* opens the stream
C30_Witness ==
    /\ Len(streamReqLog) = 2
    /\ Head(streamReqLog[1].ft) = [vb_uuid |-> UUID_B, by_seqno |-> 4]
    /\ streamReqLog[1].uuid = UUID_A /\ streamReqLog[1].start_seqno = 7
    /\ streamReqLog[1].status = "Rollback" /\ streamReqLog[1].rollback_seqno = 4
    /\ streamReqLog[2].uuid = UUID_B /\ streamReqLog[2].start_seqno = 4
    /\ streamReqLog[2].status = "Success" /\ streamReqLog[2].begins = 5
    /\ dcpStreams # {}
\* ------------------------------------------------------------------------
\* the locks thread t holds, as a set
HeldBy(t) == {locksHeld[t][n].l : n \in 1..Len(locksHeld[t])}

\* every thread took the locks it holds in the order of rank
HeldInOrder(rank) ==
    \A t \in LockThreads : \A m, n \in 1..Len(locksHeld[t]) :
        (m < n /\ locksHeld[t][m].l \in DOMAIN rank
               /\ locksHeld[t][n].l \in DOMAIN rank)
            => rank[locksHeld[t][m].l] < rank[locksHeld[t][n].l]

\* the lock thread t waits for, "none" if it waits for none
WaitsFor(t) ==
    IF lockScript[t] # <<>> /\ Head(lockScript[t]).i = "lock"
          /\ LockHolders(t, Head(lockScript[t]).l, Head(lockScript[t]).mode) # {}
    THEN Head(lockScript[t]).l ELSE "none"

\* no thread asks for vbsetMutex while it holds a state lock, or for the
\* lock of the collections manager without vbsetMutex
VbsetFirst ==
    \A t \in LockThreads \ {"reset"} :
        /\ (lockScript[t] # <<>> /\ Head(lockScript[t]).i # "unlock"
              /\ Head(lockScript[t]).l = vbsetMutex) => stateLock \notin HeldBy(t)
        /\ (lockScript[t] # <<>> /\ Head(lockScript[t]).i # "unlock"
              /\ Head(lockScript[t]).l = managerLock) => vbsetMutex \in HeldBy(t)
        /\ managerLock \in HeldBy(t) => vbsetMutex \in HeldBy(t)
        /\ vbsetMutex \in HeldBy(t) => locksHeld[t][1].l = vbsetMutex

\* no set of threads of which each waits for a lock another one of the set
\* holds
NoDeadlock ==
    \A S \in SUBSET LockThreads :
        S # {} =>
            \E t \in S :
                \/ WaitsFor(t) = "none"
                \/ \A u \in S \ {t} : WaitsFor(t) \notin HeldBy(u)

\* C31 (as stated): locks are taken in the order vbset, per-partition lock,
\* state, checkpoint, hash-table shard, durability monitor, the lock of the
\* collections manager only after vbset; no thread asks for vbset while it
\* holds a state lock; no set of threads waits in a cycle
C31_CheckpointBeforeShard ==
    /\ HeldInOrder((vbsetMutex :> 1) @@ (vb_mutex :> 2) @@ (stateLock :> 3)
                      @@ (checkpointLock :> 4) @@ (hashBucketLock :> 5)
                      @@ (durabilityLock :> 6))
    /\ VbsetFirst
    /\ NoDeadlock

\* C31 (amended): as stated, but with the lock of the hash-table shard taken
\* before the one of the checkpoint manager: vbset, per-partition lock,
\* state, hash-table shard, checkpoint, durability monitor
C31_LockOrder ==
    /\ HeldInOrder((vbsetMutex :> 1) @@ (vb_mutex :> 2) @@ (stateLock :> 3)
                      @@ (hashBucketLock :> 4) @@ (checkpointLock :> 5)
                      @@ (durabilityLock :> 6))
    /\ VbsetFirst
    /\ NoDeadlock

\* a rollback holds vbset, the partition and its state lock while a mutator
\* holds the state lock and the shard and tells the durability monitor, and
\* the expiry of an item waits for the shard
C31_Witness ==
    /\ HeldBy("rollback") = {vbsetMutex, vb_mutex, stateLock}
    /\ HeldBy("mutator") = {stateLock, hashBucketLock, durabilityLock}
    /\ HeldBy("deleteExpiredItem") = {stateLock}
    /\ WaitsFor("deleteExpiredItem") = hashBucketLock
\* ------------------------------------------------------------------------
\* the number of partitions of the map in state s
PartitionsInState(s) ==
    IF vbMap # NoVB /\ vbState[vbMap] = s THEN 1 ELSE 0

\* KVBucket::getNumOfVBucketsInState
GetNumOfVBucketsInState(s) == vbStateCount[s] % 65536

\* C32: after any sequence of setVBucketState, deleteVBucket, resetVBucket
\* and rollback the counter of each state is the number of partitions of the
\* map in that state
C32_CountersMatchMap ==
    \A s \in VBStates : GetNumOfVBucketsInState(s) = PartitionsInState(s)
\* ------------------------------------------------------------------------
\* C33: deleteExpiredItem hands the item to the partition only when the
\* partition is there and, read under the state lock, is active; the hook is
\* run for an item of seqno >= 0 with a value, and when it declines the item
\* handed over is empty and raw
C33_ExpiredOnlyWhenActive ==
    /\ expiryLast.deleted
          <=> (expiryLast.vb # NoVB /\ expiryLast.state = vbucket_state_active)
    /\ expiryLast.hooked
          => (expiryLast.it.bySeqno >= 0 /\ expiryLast.vb # NoVB)
    /\ (expiryLast.hooked /\ ~expiryLast.info.supplied)
          => /\ expiryLast.it.nbytes = 0
             /\ expiryLast.it.datatype = PROTOCOL_BINARY_RAW_BYTES
    /\ (expiryLast.hooked /\ expiryLast.info.supplied)
          => /\ expiryLast.it.nbytes = expiryLast.info.nbytes
             /\ expiryLast.it.datatype = expiryLast.info.datatype

\* an item the hook declined has been expired in an active partition, and
\* the next one is being looked at while the partition is replica
C33_Witness ==
    /\ expiryLast.deleted
    /\ expiryLast.hooked
    /\ ~expiryLast.info.supplied
    /\ expiryLast.it.nbytes = 0
    /\ expiryLast.it.datatype = PROTOCOL_BINARY_RAW_BYTES
    /\ expiry.pc = "hooked"
    /\ vbState[expiry.vb] = vbucket_state_replica
\* ------------------------------------------------------------------------
\* this step promotes the partition of the map to active from another state
PromotedToActive ==
    /\ vbState[vbMap] # vbucket_state_active
    /\ vbState'[vbMap] = vbucket_state_active

\* this step is a call of setVBucketState with the state the partition has
\* and no metadata
SetSameStateNoMeta ==
    /\ vbMap # NoVB
    /\ \E transfer \in TransferVB :
          SetVBucketState(vbState[vbMap], "empty", transfer,
                          NothingPersisted, TRUE)

\* C34: a step that leaves the partition in the map, is no rollback and
\* does not promote the partition to active from another state leaves its
\* failover table, and so its latest UUID, as they were (so does
\* setVBucketState to active of an active partition with metadata); a call
\* with the state the partition has and no metadata changes nothing
C34_NoEntryWithoutPromotion ==
    [][ /\ (vbMap # NoVB /\ vbMap' = vbMap /\ ~RollbackCalled
               /\ ~PromotedToActive)
            => failovers'[vbMap] = failovers[vbMap]
        /\ SetSameStateNoMeta => UNCHANGED vars ]_vars
\* ------------------------------------------------------------------------
\* nothing of the partitions, their failover tables, checkpoints and
\* streams is changed by this step
PartitionsUntouched ==
    UNCHANGED <<vbMap, vbState, vbStateCount, failovers, uuidsMinted,
                dcpStreams, cursors, vbHighSeqno, vbManifest>>

\* C35: rollback returns Abort for a partition that is active or dead or is
\* not there, and Reschedule when the lock of the partition cannot be got
\* without waiting; in all these cases nothing is rewound, reset, changed
\* of state, and no stream is closed
C35_RollbackRefused ==
    [][RollbackCalled =>
         /\ ~rollbackLast'.lockGot => rollbackLast'.res = "Reschedule"
         /\ (/\ rollbackLast'.lockGot
             /\ \/ vbMap = NoVB
                \/ vbState[vbMap] \in {vbucket_state_active,
                                       vbucket_state_dead})
               => rollbackLast'.res = "Abort"
         /\ rollbackLast'.res \in {"Abort", "Reschedule"}
               => /\ rollbackLast'.how = "none"
                  /\ PartitionsUntouched ]_vars

\* the rollback of a dead partition with a stream open and items queued was
\* aborted
C35_Witness ==
    /\ rollbackLast.res = "Abort"
    /\ vbMap # NoVB
    /\ vbState[vbMap] = vbucket_state_dead
    /\ rollbackLast.found # {}
    /\ dcpStreams = rollbackLast.found
    /\ vbHighSeqno[vbMap] > 0
\* ------------------------------------------------------------------------
\* this step is a call of fn on the expiry pager
PagerCalled(fn) ==
    pagerLast'.call # pagerLast.call /\ pagerLast'.fn = fn

\* C36: once the expiry pager is initialized, a task is scheduled exactly
\* when the pager is enabled, there is never more than one, and it has the
\* sleep time set last; enabling an enabled pager and disabling a disabled
\* one change nothing; the sleep time set while the pager is disabled is the
\* one of the task scheduled when it is enabled next
C36_OneTaskIffEnabled ==
    [][ /\ expiryPager'.initialized =>
              /\ (scheduledTasks' # {}) <=> expiryPager'.enabled
              /\ Cardinality(scheduledTasks') <= 1
              /\ \A t \in scheduledTasks' :
                    /\ t.id = expiryPager'.task
                    /\ t.sleeptime = expiryPager'.sleeptime
        /\ (PagerCalled("enableExpiryPager") /\ expiryPager.enabled)
              => UNCHANGED <<expiryPager, scheduledTasks, nextTaskId>>
        /\ (PagerCalled("disableExpiryPager") /\ ~expiryPager.enabled)
              => UNCHANGED <<expiryPager, scheduledTasks, nextTaskId>>
        /\ (PagerCalled("enableExpiryPager") /\ ~expiryPager.enabled)
              => scheduledTasks' =
                    {[id |-> nextTaskId', sleeptime |-> expiryPager.sleeptime,
                      tasktime |-> NoTasktime]} ]_vars

\* the pager was started disabled, given another sleep time and enabled:
\* its one task has that sleep time
C36_Witness ==
    /\ pagerLast.fn = "enableExpiryPager"
    /\ ~pagerLast.enabled
    /\ expiryPager.enabled
    /\ nextTaskId = 3
    /\ \E t \in scheduledTasks : t.sleeptime = 20 /\ t.id = 3
\* ------------------------------------------------------------------------
\* a DcpDeletion of that version is queued and still in the list
DeletionQueued(version) ==
    /\ deletionLast.version = version
    /\ deletionLast.ret = "ENGINE_SUCCESS"
    /\ iov # <<>>
    /\ deletionLast.queued <= Len(iov)

\* the bytes of the packet the last DcpDeletion queued, as they are sent
QueuedDeletion ==
    Concat(SubSeq(iov, Len(iov) - deletionLast.queued + 1, Len(iov)))

\* the packet as the protocol has it: the header, the stream-id frame-info
\* when a stream id is set, the extras, the key, the value, the meta section
DeletionAsFramed(payloadLen) ==
    Bytes("req", SizeofRequest)
        \o Bytes("frameExtras", deletionLast.req.framingExtraslen)
        \o Bytes("extras", payloadLen)
        \o (IF collectionsSupported THEN InfoKey
            ELSE MakeDocKeyWithoutCollectionID(InfoKey))
        \o Bytes("value", deletionLast.nbytes)
        \o Bytes("meta", deletionLast.nmeta)

\* C37: the DcpDeletion v1 Connection::deletion queues carries, after the
\* header, the stream-id frame-info when a stream id is set and then the
\* complete v1 extras, as the v2 frame does; no byte of it is a byte that was
\* never written
C37_V1ExtrasAfterFrameInfo ==
    DeletionQueued(1) =>
        /\ QueuedDeletion = DeletionAsFramed(SizeofDcpDeletionV1Payload)
        /\ deletionLast.req.framingExtraslen =
              (IF deletionLast.sid # 0 THEN SizeofDcpStreamIdFrameInfo ELSE 0)
        /\ \A i \in 1..Len(QueuedDeletion) : QueuedDeletion[i] # "stack"

\* the v2 frame is as the protocol has it
V2ExtrasAfterFrameInfo ==
    DeletionQueued(2) =>
        QueuedDeletion = DeletionAsFramed(SizeofDcpDeletionV2Payload)

\* without a stream id the v1 frame is as the protocol has it
V1FramedWithoutStreamId ==
    (DeletionQueued(1) /\ deletionLast.sid = 0) =>
        QueuedDeletion = DeletionAsFramed(SizeofDcpDeletionV1Payload)
\* ------------------------------------------------------------------------
\* the engine function is called once and once more after every
\* notification with ENGINE_SUCCESS, and nblocks counts the waits
CalledAfterSuccessOnly ==
    /\ engineCall.pc \in {"waiting", "notified", "returned"}
          => /\ engineCall.ncalls \in {engineCall.nsuccess,
                                       engineCall.nsuccess + 1}
             /\ mockCookie.nblocks = engineCall.nwaits
    /\ engineCall.pc \in {"waiting", "returned"}
          => engineCall.ncalls = engineCall.nsuccess + 1

\* C38: a wrapper that has returned has left the mutex of the cookie; the
\* engine function is called again only after a notification with
\* ENGINE_SUCCESS, and nblocks is the number of waits
C38_MutexReleasedOnReturn ==
    /\ engineCall.pc = "returned" => mockCookie.mutex = "free"
    /\ CalledAfterSuccessOnly

\* what holds of call_engine_and_handle_EWOULDBLOCK, and of
\* do_blocking_engine_call as long as no notification fails
MutexReleasedUnlessFailedNotify ==
    /\ (engineCall.pc = "returned"
          /\ (engineCall.fn = "call_engine_and_handle_EWOULDBLOCK"
                \/ engineCall.nsuccess = engineCall.nwaits))
          => mockCookie.mutex = "free"
    /\ CalledAfterSuccessOnly

\* do_blocking_engine_call has returned the status of a failed notification
C38_FailedNotifyReturned ==
    /\ engineCall.pc = "returned"
    /\ engineCall.fn = "do_blocking_engine_call"
    /\ engineCall.nwaits > engineCall.nsuccess
\* ------------------------------------------------------------------------
\* q is p with some of its elements left out
RECURSIVE IsSubseq(_, _)
IsSubseq(q, p) ==
    IF q = <<>> THEN TRUE
    ELSE IF p = <<>> THEN FALSE
    ELSE IF Head(q) = Head(p) THEN IsSubseq(Tail(q), Tail(p))
    ELSE IsSubseq(q, Tail(p))

\* the ids of captured the task has gone past
WalkedIds ==
    SubSeq(adaptor.captured, 1, Len(adaptor.captured) - Len(adaptor.vbList))

\* the ids visited are ids gone past, in the order captured, each once;
\* vbList is the rest of the ids captured; complete() is called once, by
\* the run that returns done
VisitedInOrder ==
    /\ adaptor.captured = WalkedIds \o adaptor.vbList
    /\ IsSubseq(adaptor.visited, WalkedIds)
    /\ adaptor.completes = (IF adaptor.state = "done" THEN 1 ELSE 0)
    /\ adaptor.state = "done" => adaptor.vbList = <<>> /\ ~adaptor.last.ret

\* what one run does
RunVisitsOne ==
    \A pause \in BOOLEAN :
        RunAdaptor(pause) =>
            LET nonEmpty == adaptor.vbList # <<>>
                exists == nonEmpty /\ Head(adaptor.vbList) \in bucketsInMap
            IN /\ (exists /\ pause)
                     => /\ adaptor'.vbList = adaptor.vbList
                        /\ adaptor'.visited = adaptor.visited
                        /\ adaptor'.completes = adaptor.completes
                        /\ adaptor'.state = "snoozed"
                        /\ adaptor'.last.ret
               /\ (exists /\ ~pause)
                     => /\ adaptor'.vbList = Tail(adaptor.vbList)
                        /\ adaptor'.visited =
                              Append(adaptor.visited, Head(adaptor.vbList))
               /\ (nonEmpty /\ ~exists)
                     => /\ adaptor'.vbList = Tail(adaptor.vbList)
                        /\ adaptor'.visited = adaptor.visited
               /\ ~(exists /\ pause)
                     => /\ adaptor'.completes =
                              adaptor.completes
                                + (IF adaptor'.vbList = <<>> THEN 1 ELSE 0)
                        /\ adaptor'.last.ret = (adaptor'.vbList # <<>>)
                        /\ (adaptor'.state = "done") = (adaptor'.vbList = <<>>)

\* C39: the runs of a VBCBAdaptor visit the ids captured at construction
\* at most once and in order, and pass over an id whose partition is gone;
\* a run in which the visitor pauses visits nothing, pops nothing and is
\* rescheduled; complete() is called in the run that leaves the list empty,
\* which returns done; and once the visitor no longer pauses, the task
\* gets done.
C39_VisitsEachOnceThenDone ==
    /\ [](VisitedInOrder)
    /\ [][RunVisitsOne]_vars
    /\ (adaptor.state # "none" /\ ~visitorMayPause) ~> (adaptor.state = "done")

\* the task is done, having visited two of the three partitions captured
\* and passed over the one that was deleted
C39_Witness ==
    /\ adaptor.state = "done"
    /\ Len(adaptor.captured) = 3
    /\ Len(adaptor.visited) = 2
    /\ adaptor.completes = 1
\* ------------------------------------------------------------------------
\* the cookies of the connection
CookiesOf(c) == {i \in CloseCookieIds : c.cookies[i].present}

RECURSIVE SumRefcounts(_, _)
SumRefcounts(c, ids) ==
    IF ids = {} THEN 0
    ELSE LET i == CHOOSE j \in ids : TRUE
         IN c.cookies[i].refcount + SumRefcounts(c, ids \ {i})

\* C40: Connection::close moves the connection to immediate_close and
\* returns true only if its refcount and those of its cookies add up to at
\* most 1 and, unless it is a DCP connection, no cookie is blocked in the
\* engine; otherwise it moves to pending_close and returns false. It makes
\* one disconnect callback per cookie and resets the cookies that are not
\* blocked, and no other.
C40_CloseImmediateOrPending ==
    [][ CloseConnection =>
          LET blocked == {i \in CookiesOf(closing) :
                             closing.cookies[i].ewouldblock}
              immediate ==
                  /\ closing.refcount + SumRefcounts(closing,
                                                     CookiesOf(closing)) <= 1
                  /\ closing.dcp \/ blocked = {}
          IN /\ closing'.state = (IF immediate THEN "immediate_close"
                                  ELSE "pending_close")
             /\ closeLast'.ret = immediate
             /\ \A i \in CloseCookieIds :
                   closeLast'.disconnects[i] =
                       (IF i \in CookiesOf(closing) THEN 1 ELSE 0)
             /\ closeLast'.resets = CookiesOf(closing) \ blocked
             /\ \A i \in CookiesOf(closing) \ blocked :
                   ~closing'.cookies[i].request
             /\ \A i \in blocked \union (CloseCookieIds \ CookiesOf(closing)) :
                   closing'.cookies[i] = closing.cookies[i] ]_vars

\* a DCP connection with a blocked cookie was closed at once, its other
\* cookie reset
C40_Witness ==
    /\ closeLast.called
    /\ closeLast.ret
    /\ closing.state = "immediate_close"
    /\ closing.dcp
    /\ \E i \in CookiesOf(closing) : closing.cookies[i].ewouldblock
    /\ closeLast.resets # {}

\* a connection without references waits in pending_close for a blocked
\* cookie
C40_WitnessPending ==
    /\ closeLast.called
    /\ ~closeLast.ret
    /\ closing.state = "pending_close"
    /\ closing.refcount + SumRefcounts(closing, CookiesOf(closing)) <= 1

====
